---- MODULE Spec2Model ----
(***************************************************************************)
(* A model of RTTAnalyzer (borisdali/rttanalyzer): the Watchdog and its    *)
(* trace table, the Miner loop, the trace file reader, the Roster, and the *)
(* trace parser with its cursor table.                                     *)
(*                                                                         *)
(* The module holds several specifications over one set of variables:      *)
(*   Spec        the Watchdog, the Miners and the Roster over two files    *)
(*   SpecMine    one file growing byte by byte, roster writes that may fail*)
(*   SpecTrunc   SpecMine with a file that may be overwritten              *)
(*   SpecLive    SpecMine with fair scheduling of the goroutines           *)
(*   SpecReader  TraceFile.ReadRecords called repeatedly on one file       *)
(*   SpecParser  Dump called by one Miner on a sequence of records         *)
(*   SpecCursor  concurrent compareAndSet calls on the cursor table        *)
(*   SpecResume  one file read and parsed across a restart of the process  *)
(*   SpecShare   the Miners of two files calling Dump on the one dumper     *)
(*   SpecRoster  Roster.Save step by step, with restarts of the process     *)
(*   SpecLoad    loadSQL reading a watch-list file record by record        *)
(*   SpecAwr     ParseAWR reading an AWR report line by line               *)
(*   SpecStats   setViolations called by the Miners of several files       *)
(*   SpecEvents  SpecLive with a modify event for every append             *)
(*   SpecFilter  events for trace files and other files of the directory   *)
(*   SpecLexer   Dump called by one Miner on lines given as text           *)
(*   SpecDeref   parseRecord step by step, called by several Miners        *)
(* Each specification leaves the variables of the others unchanged.        *)
(***************************************************************************)
EXTENDS Integers, Sequences, FiniteSets, TLC

VARIABLES
    \* ---- the Watchdog, the Miners, the Roster (rttanalyzer.go, miner.go)
    mode,        \* the --mode flag of Run
    proc,        \* the process: "up", "panic", "fatal"
    file,        \* path -> the bytes of the trace file on disk
    traces,      \* stat.traces: path -> channel id (0: no entry)
    closed,      \* the channels that have been closed
    miner,       \* goroutine id -> the Miner goroutine started by checkFile
    wd,          \* the Watchdog's event loop
    sig,         \* the interrupt goroutine of Run
    cntrlc,      \* the cntrlc channel of Run holds a value
    rosterR,     \* Roster.R: path -> jsonTraceFile (NoRec: no key)
    rosterDisk,  \* the roster file on disk
    \* ---- one TraceFile read by successive ReadRecords calls (SpecReader)
    rdFile,      \* the bytes of the file
    rdOffset,    \* tf.offset
    rdOut,       \* the calls so far: the offset each began at and its result
    \* ---- the Dumper: watch list, cursor table, Sink (sink package)
    watch,       \* Generic.MonitoredSQLs, the rows with their rolling stats
    cursors,     \* CursorTrackerProtected.Cursors: cursor id -> Cursor (NoCursor: no key)
    emitted,     \* the summaries handed to the Sink so far
    psPrefix,    \* the records one Miner has handed to Dump so far (SpecParser)
    psState,     \* that Miner: "run", "failed", "fatal", "panic"
    \* ---- concurrent compareAndSet calls (SpecCursor)
    ctLock,      \* the holder of the write lock of the cursor table (0: free)
    cas,         \* thread -> its compareAndSet call in progress
    casLog,      \* the calls that have returned, in order of return
    \* ---- one file processed across a restart of the process (SpecResume)
    rsFile,      \* the records (lines) of the trace file
    rsOffset,    \* the Miner's offset, in lines
    rsRoster,    \* the offset of the file's Roster record on disk (-1: no record)
    rsCut,       \* where the process was restarted (NoCut: not restarted)
    \* ---- the Miners of two files on the one dumper (SpecShare)
    xfLog,       \* the records handed to Dump so far, each with its file and outcome
    \* ---- Roster.Save step by step (SpecRoster)
    roLock,      \* the holder of the Roster's lock (0: free)
    roSaver,     \* Miner -> its TraceFile and its place in tf.UpdateRoster
    roLoad,      \* how LoadRoster ended at the last start of the process
    \* ---- the input files: the watch list and the AWR report (SpecLoad, SpecAwr)
    ld,          \* loadSQL: the file, the lines read, the rows built, how it ended
    awr,         \* ParseAWR: the report, the lines read, the flag, the rows built
    \* ---- setViolations called by several Miners (SpecStats)
    svCall,      \* thread -> its setViolations call in progress
    \* ---- trace lines as text (SpecLexer) and parseRecord step by step (SpecDeref)
    lx,          \* the lines handed to Dump, each with its type and how Dump ended
    prCall       \* thread -> its parseRecord call in progress

sysVars == <<mode, proc, file, traces, closed, miner, wd, sig, cntrlc, rosterR, rosterDisk>>
rdVars == <<rdFile, rdOffset, rdOut>>
dumpVars == <<watch, cursors, emitted>>
psVars == <<psPrefix, psState>>
casVars == <<ctLock, cas, casLog>>
rsVars == <<rsFile, rsOffset, rsRoster, rsCut>>
xfVars == <<xfLog>>
roVars == <<roLock, roSaver, roLoad>>
lxVars == <<lx, prCall>>
inVars == <<ld, awr, svCall, lxVars>>

vars == <<sysVars, rdVars, dumpVars, psVars, casVars, rsVars, xfVars, roVars, inVars>>

\* What the actions of the Watchdog and the Miners leave alone.
nonSys == <<rdVars, dumpVars, psVars, casVars, rsVars, xfVars, roVars, inVars>>

\* The Watchdog and the Miners without the Roster.
sysRest == <<mode, proc, file, traces, closed, miner, wd, sig, cntrlc>>

(***************************************************************************)
(* Bounds of the model.                                                    *)
(***************************************************************************)
MaxLines == 1        \* lines a trace file grows to in Spec
MaxFileLen == 2      \* bytes a trace file grows to in SpecMine and SpecTrunc
MaxMiners == 2       \* channels (and Miner goroutines) in use at one time
MaxReadLen == 3      \* bytes of the file of SpecReader
MaxCalls == 5        \* ReadRecords calls in SpecReader
MaxRecs == 3         \* records handed to Dump in SpecParser
MaxThreads == 2      \* goroutines calling compareAndSet in SpecCursor
MaxCasCalls == 3     \* compareAndSet calls in SpecCursor
MaxResumeLines == 3  \* lines of the trace file of SpecResume
MaxShareSteps == 3   \* Dump calls and Miner exits in SpecShare
MaxSavers == 2       \* Miners calling tf.UpdateRoster in SpecRoster
MaxRosterOffset == 2 \* the offset a Miner of SpecRoster reads up to
MaxWatchLines == 2   \* the lines of a watch-list file
MaxAwrLines == 4     \* the lines of an AWR report
MaxStatCalls == 3    \* setViolations calls in SpecStats

(***************************************************************************)
(* Bytes and lines.                                                        *)
(***************************************************************************)
LF == "LF"
CR == "CR"

\* recordsCount of rttanalyzer.go: records returned by one ReadRecords call.
recordsCount == 1

\* The suffix of s after its first n elements.
Drop(s, n) == IF n >= Len(s) THEN <<>> ELSE SubSeq(s, n + 1, Len(s))

\* Index of the first LF of s, 0 when there is none.
FirstLF(s) ==
    IF \E i \in 1..Len(s) : s[i] = LF
    THEN CHOOSE i \in 1..Len(s) : s[i] = LF /\ \A j \in 1..(i - 1) : s[j] # LF
    ELSE 0

\* bufio.dropCR: a trailing carriage return is dropped from the token.
dropCR(t) == IF Len(t) > 0 /\ t[Len(t)] = CR THEN SubSeq(t, 1, Len(t) - 1) ELSE t

\* bufio.ScanLines on the unread rest of the file (the Scanner reads to EOF):
\* the token up to the first LF, or the whole rest when there is no LF.
ScanLines(rest) ==
    LET i == FirstLF(rest) IN
    IF i > 0
    THEN [advance |-> i, token |-> dropCR(SubSeq(rest, 1, i - 1))]
    ELSE [advance |-> Len(rest), token |-> dropCR(rest)]

\* The byte count ReadRecords adds to tf.offset for one token.
OffsetStep(tok) == Len(tok) + 1

\* The loop of ReadRecords: for scanner.Scan() { if n < recordsCount {...} else return }.
RECURSIVE ReadLoop(_, _, _, _)
ReadLoop(rest, n, off, recs) ==
    IF rest = <<>>
    THEN [records |-> recs, offset |-> off]
    ELSE IF n < recordsCount
         THEN LET t == ScanLines(rest) IN
              ReadLoop(Drop(rest, t.advance), n + 1, off + OffsetStep(t.token),
                       Append(recs, t.token \o <<LF>>))
         ELSE [records |-> recs, offset |-> off]

\* TraceFile.ReadRecords: seek to tf.offset, then scan lines.
ReadRecords(content, offset) == ReadLoop(Drop(content, offset), 0, offset, <<>>)

(***************************************************************************)
(* File names (path/filepath).  A name is kept as the sequence of its      *)
(* elements between the separators: "d//f1" is <<"d", "", "f1">>.          *)
(***************************************************************************)
\* filepath.Clean: empty elements and "." elements are dropped.
Clean(p) == SelectSeq(p, LAMBDA el : el \notin {"", "."})

\* filepath.Dir: all but the last element, cleaned.
Dir(p) == Clean(SubSeq(p, 1, Len(p) - 1))

\* filepath.Base: the last element.
Base(p) == <<p[Len(p)]>>

\* filepath.Join: the elements joined by a separator, cleaned.
Join(dir, name) == Clean(dir \o name)

(***************************************************************************)
(* The Roster (rttanalyzer.go).                                            *)
(***************************************************************************)
\* The trace files of the watched directory, as fsnotify names them for a directory
\* given in clean form.
P1 == <<"d", "f1">>
P2 == <<"d", "f2">>
Paths == {P1, P2}
\* Other files of the watched directory, which are not trace files of the database.
OtherPaths == {<<"d", "g1">>, <<"d", "g2">>, <<"d", "g3">>, <<"d", "g4">>}
NoPath == <<>>
NoRec == [version |-> 0, offset |-> -1]
Modes == {"write", "create"}
Kinds == {"create", "modify", "delete"}

\* OpenTraceFile: a fresh TraceFile, version 1 at offset 0.
OpenTraceFile(p) == [path |-> p, version |-> 1, offset |-> 0]

\* A slip in Roster.TraceFile: the record of a known trace is not used.
RosterTraceFileFresh(R, p) == OpenTraceFile(p)

\* rf, ok := r.R[fileName]: the record under the key fileName (NoRec: !ok).
Lookup(R, fileName) == IF fileName \in DOMAIN R THEN R[fileName] ELSE NoRec

\* Roster.TraceFile: a known trace resumes at the version and offset of its record,
\* under the Name and DirectoryName that Save kept (those of the key).
RosterTraceFile(R, fileName) ==
    LET rf == Lookup(R, fileName) IN
    IF rf = NoRec
    THEN OpenTraceFile(fileName)
    ELSE [path |-> fileName, version |-> rf.version, offset |-> rf.offset]

\* filepath.Join(tf.DirectoryName, tf.Name): the key Save writes the record under,
\* with Name and DirectoryName the Base and Dir of the file name.
TraceKey(tf) == Join(Dir(tf.path), Base(tf.path))

\* The roster file: the bytes of the document of a Roster map, of which the file
\* holds all, a part (a write that stopped early) or none (after the open with O_TRUNC).
RosterFile(R, got) == [doc |-> R, got |-> got]

\* The roster file after a whole write of ioutil.WriteFile.
Whole(R) == RosterFile(R, "all")

\* Roster.Save, the map update: r.R[traceKey] = jsonTraceFile{...}.
RosterSave(R, tf) ==
    [R EXCEPT ![TraceKey(tf)] = [version |-> tf.version, offset |-> tf.offset]]

(***************************************************************************)
(* The Miner goroutines (miner.go, Mine; checkFile's go func).             *)
(*   pc: "read"   about to call tf.ReadRecords                             *)
(*       "dump"   inside the loop over the batch, about to call Dump       *)
(*       "save"   the batch was empty, about to call tf.UpdateRoster       *)
(*       "recv"   blocked in <-notify                                      *)
(*       "failed" Mine returned an error, about to call s.deleteTrace      *)
(*       "gone_err", "gone_ok" the goroutine has ended                     *)
(* start and dumped record where the Miner began and the bytes it has      *)
(* handed to Dump; dumpErr tells that Dump has returned an error.          *)
(***************************************************************************)
MinerIds == 1..MaxMiners
NoMiner == [pc |-> "none", path |-> NoPath, version |-> 0, offset |-> 0,
            batch |-> <<>>, start |-> 0, dumped |-> <<>>, dumpErr |-> FALSE]
InMine == {"read", "dump", "save", "recv"}
Alive == InMine \cup {"failed"}

Ended == {"none", "gone_ok", "gone_err"}

\* The record left when the goroutine has ended: its file and how it ended.
Gone(m, how) == [NoMiner EXCEPT !.pc = how, !.path = miner[m].path]

\* strs, err := tf.ReadRecords(); recordsRead := len(strs)
MinerRead(m) ==
    /\ proc = "up"
    /\ miner[m].pc = "read"
    /\ LET r == ReadRecords(file[miner[m].path], miner[m].offset) IN
       miner' = [miner EXCEPT ![m].offset = r.offset,
                              ![m].batch = r.records,
                              ![m].pc = IF r.records = <<>> THEN "save" ELSE "dump"]
    /\ UNCHANGED <<mode, proc, file, traces, closed, wd, sig, cntrlc, rosterR, rosterDisk>>
    /\ UNCHANGED nonSys

\* A slip in Mine: the error of Dump is not returned.
AfterDumpSkipsError(ok, rest) == IF rest = <<>> THEN "read" ELSE "dump"

\* A slip in Mine: the save and the receive follow every batch, empty or not.
AfterDumpBlocks(ok, rest) ==
    IF ~ok THEN "failed" ELSE IF rest = <<>> THEN "save" ELSE "dump"

\* The pc of a Miner after Dump returned for the head of its batch.
AfterDump(ok, rest) ==
    IF ~ok THEN "failed" ELSE IF rest = <<>> THEN "read" ELSE "dump"

\* for _, v := range strs { if err := dumper.Dump(..., v); err != nil { return err } }
\* Dump returns nil or an error (a parse error or a Sink error).
MinerDump(m) ==
    /\ proc = "up"
    /\ miner[m].pc = "dump"
    /\ \E ok \in BOOLEAN :
         LET rest == Tail(miner[m].batch) IN
         miner' = [miner EXCEPT ![m].dumped = @ \o Head(miner[m].batch),
                                ![m].batch = IF ok THEN rest ELSE <<>>,
                                ![m].dumpErr = ~ok,
                                ![m].pc = AfterDump(ok, rest)]
    /\ UNCHANGED <<mode, proc, file, traces, closed, wd, sig, cntrlc, rosterR, rosterDisk>>
    /\ UNCHANGED nonSys

\* if recordsRead == 0 { tf.UpdateRoster() ... }: the error of Save is dropped.
\* Save updates r.R and then writes the file; written tells whether the write
\* succeeded (a failed write is taken to leave the file as it was: the process does
\* not read the file again while it runs; SpecRoster follows the write step by step).
MinerSave(m, written) ==
    /\ proc = "up"
    /\ miner[m].pc = "save"
    /\ rosterR' = RosterSave(rosterR, miner[m])
    /\ rosterDisk' = IF written THEN Whole(rosterR') ELSE rosterDisk
    /\ miner' = [miner EXCEPT ![m].pc = "recv"]
    /\ UNCHANGED <<mode, proc, file, traces, closed, wd, sig, cntrlc>>
    /\ UNCHANGED nonSys

\* A slip in Mine: the closed channel is reported as an error.
RecvClosedAsError == "failed"

\* if !ok { return nil }: how Mine ends when the receive finds the channel closed.
RecvClosedResult == "gone_ok"

\* What a Miner goroutine becomes when Mine has returned with the given result.
Returned(m, how) == IF how = "failed" THEN [miner[m] EXCEPT !.pc = "failed"] ELSE Gone(m, how)

\* _, ok := <-notify; if !ok { return nil }: the channel is closed.
MinerRecvClosed(m) ==
    /\ proc = "up"
    /\ miner[m].pc = "recv"
    /\ m \in closed
    /\ miner' = [miner EXCEPT ![m] = Returned(m, RecvClosedResult)]
    /\ UNCHANGED <<mode, proc, file, traces, closed, wd, sig, cntrlc, rosterR, rosterDisk>>
    /\ UNCHANGED nonSys

\* s.deleteTrace(fileName) in the goroutine of checkFile, after Mine returned an error.
MinerDelete(m) ==
    /\ proc = "up"
    /\ miner[m].pc = "failed"
    /\ traces' = [traces EXCEPT ![miner[m].path] = 0]
    /\ miner' = [miner EXCEPT ![m] = Gone(m, "gone_err")]
    /\ UNCHANGED <<mode, proc, file, closed, wd, sig, cntrlc, rosterR, rosterDisk>>
    /\ UNCHANGED nonSys

(***************************************************************************)
(* The Watchdog (rttanalyzer.go, package watchdog: Run, checkFile, stat).  *)
(*   wd.pc: "select" in the select of the event loop                       *)
(*          "open"   addOrGetTrace returned launchMiner, before r.TraceFile*)
(*          "send"   in ch <- struct{}{}                                   *)
(*          "done"   Run returned nil                                      *)
(***************************************************************************)
WdIdle == [pc |-> "select", path |-> NoPath, ch |-> 0]

\* The switch of Run's event case.
Accepted(md, kind) ==
    \/ md = "write" /\ kind \in {"modify", "create"}
    \/ md = "create" /\ kind = "create"

\* make(chan struct{}) yields a channel distinct from every channel still referenced:
\* by the trace table, by a running Miner goroutine or by the Watchdog's pending send.
\* A channel and the goroutine started for it share their id.
UsedIds ==
    {traces[p] : p \in Paths} \cup {m \in MinerIds : miner[m].pc \notin Ended} \cup {wd.ch}
FreshId == CHOOSE c \in MinerIds \ UsedIds : \A d \in MinerIds \ UsedIds : c <= d

\* A slip in addOrGetTrace: a channel is made whether or not the key has one.
LaunchMinerAlways(p) == TRUE

\* addOrGetTrace: launchMiner is true iff the key had no channel.
LaunchMiner(p) == traces[p] = 0

\* The --dbname flag.
dbName == "db"

\* The last element of a file name, in pieces: the elements "f1" and "f2" of P1 and
\* P2 are short for db_ora_1.trc and db_ora_2.trc.
Spelling(el) ==
    CASE el = "f1" -> <<"db", "_ora_", "1", ".trc">>
      [] el = "f2" -> <<"db", "_ora_", "2", ".trc">>
      [] el = "g1" -> <<"db", "_ora_", "1", ".trm">>
      [] el = "g2" -> <<"xe", "_ora_", "1", ".trc">>
      [] el = "g3" -> <<"alert", "_", "db", "_ora_", ".trc">>
      [] el = "g4" -> <<"db", "_ora_", "1", ".trc", ".bak">>
      [] OTHER -> <<el>>

\* filepath.Ext: the suffix of the last element from its last dot ("" without a dot).
Ext(p) ==
    LET s == Spelling(p[Len(p)]) IN
    IF s[Len(s)] \in {".trc", ".trm", ".bak"} THEN s[Len(s)] ELSE ""

\* strings.HasPrefix(path.Base(fileName), dbName+"_ora_")
HasOraPrefix(p, db) ==
    LET s == Spelling(Base(p)[1]) IN Len(s) >= 2 /\ s[1] = db /\ s[2] = "_ora_"

\* A slip in checkFile: only the extension is tested.
IsTraceNameByExt(p, db) == Ext(p) = ".trc"

\* The two tests at the head of checkFile: the names it does not skip.
IsTraceName(p, db) == Ext(p) = ".trc" /\ HasOraPrefix(p, db)

\* checkFile from addOrGetTrace on: up to the send or up to the call of r.TraceFile.
AddOrGet(p) ==
    IF LaunchMiner(p)
    THEN /\ MinerIds \ UsedIds # {}
         /\ traces' = [traces EXCEPT ![p] = FreshId]
         /\ wd' = [pc |-> "open", path |-> p, ch |-> FreshId]
         /\ closed' = closed \ {FreshId}
         /\ sig' = [sig EXCEPT !.first = @ \ {FreshId}, !.seen = @ \ {FreshId}]
    ELSE /\ wd' = [pc |-> "send", path |-> p, ch |-> traces[p]]
         /\ UNCHANGED <<traces, closed, sig>>

\* An event from watcher.Event for a trace file that the mode accepts: checkFile up
\* to the send or up to the call of r.TraceFile.
WdCheckFile(p, kind) ==
    /\ proc = "up"
    /\ wd.pc = "select"
    /\ Accepted(mode, kind)
    /\ IsTraceName(p, dbName)
    /\ AddOrGet(p)
    /\ UNCHANGED <<mode, proc, file, miner, cntrlc, rosterR, rosterDisk>>
    /\ UNCHANGED nonSys

\* The same in two steps, for any file of the directory (SpecFilter): the event is
\* taken from watcher.Event, ...
WdEvent(p, kind) ==
    /\ proc = "up"
    /\ wd.pc = "select"
    /\ wd' = [pc |-> "event", path |-> p, ch |-> 0, kind |-> kind]
    /\ UNCHANGED <<mode, proc, file, traces, closed, miner, sig, cntrlc, rosterR, rosterDisk>>
    /\ UNCHANGED nonSys

\* ... and goes through the switch of Run and the tests of checkFile.
WdDispatch ==
    /\ proc = "up"
    /\ wd.pc = "event"
    /\ IF Accepted(mode, wd.kind) /\ IsTraceName(wd.path, dbName)
       THEN AddOrGet(wd.path)
       ELSE wd' = WdIdle /\ UNCHANGED <<traces, closed, sig>>
    /\ UNCHANGED <<mode, proc, file, miner, cntrlc, rosterR, rosterDisk>>
    /\ UNCHANGED nonSys

\* An event the mode does not accept: the loop goes round.
WdIgnore(p, kind) ==
    /\ proc = "up"
    /\ wd.pc = "select"
    /\ ~Accepted(mode, kind)
    /\ UNCHANGED sysVars
    /\ UNCHANGED nonSys

\* f, err := r.TraceFile(fileName); go func() { miner.Mine(..., ch, dumper, f) ... }()
WdOpen ==
    /\ proc = "up"
    /\ wd.pc = "open"
    /\ LET tf == RosterTraceFile(rosterR, wd.path) IN
       miner' = [miner EXCEPT ![wd.ch] =
                    [pc |-> "read", path |-> wd.path, version |-> tf.version,
                     offset |-> tf.offset, batch |-> <<>>, start |-> tf.offset,
                     dumped |-> <<>>, dumpErr |-> FALSE]]
    /\ wd' = WdIdle
    /\ UNCHANGED <<mode, proc, file, traces, closed, sig, cntrlc, rosterR, rosterDisk>>
    /\ UNCHANGED nonSys

\* The send ch <- struct{}{} can complete: make(chan struct{}) has no buffer, so a
\* receiver must be waiting in <-notify on that channel.
SendReady(c) == c \in MinerIds /\ miner[c].pc = "recv"

\* ch <- struct{}{} meets the Miner's <-notify: the Miner loops, checkFile returns.
WakeDeliver ==
    /\ proc = "up"
    /\ wd.pc = "send"
    /\ wd.ch \notin closed
    /\ SendReady(wd.ch)
    /\ miner' = [miner EXCEPT ![wd.ch].pc = "read"]
    /\ wd' = WdIdle
    /\ UNCHANGED <<mode, proc, file, traces, closed, sig, cntrlc, rosterR, rosterDisk>>
    /\ UNCHANGED nonSys

\* A send on a closed channel panics.
WdSendClosed ==
    /\ proc = "up"
    /\ wd.pc = "send"
    /\ wd.ch \in closed
    /\ proc' = "panic"
    /\ UNCHANGED <<mode, file, traces, closed, miner, wd, sig, cntrlc, rosterR, rosterDisk>>
    /\ UNCHANGED nonSys

\* case <-cntrlc: return nil
WdReturn ==
    /\ proc = "up"
    /\ wd.pc = "select"
    /\ cntrlc
    /\ wd' = [WdIdle EXCEPT !.pc = "done"]
    /\ UNCHANGED <<mode, proc, file, traces, closed, miner, sig, cntrlc, rosterR, rosterDisk>>
    /\ UNCHANGED nonSys

(***************************************************************************)
(* The interrupt goroutine of Run: <-c; for _, ch := range t.traces        *)
(* { close(ch) }; cntrlc <- true.  The range reads the map without the     *)
(* lock: an entry added while it runs may or may not be visited.           *)
(***************************************************************************)
Channels == {traces[p] : p \in Paths} \ {0}

SigInterrupt ==
    /\ proc = "up"
    /\ sig.pc = "idle"
    /\ sig' = [pc |-> "closing", first |-> Channels, seen |-> {}]
    /\ UNCHANGED <<mode, proc, file, traces, closed, miner, wd, cntrlc, rosterR, rosterDisk>>
    /\ UNCHANGED nonSys

SigClose(c) ==
    /\ proc = "up"
    /\ sig.pc = "closing"
    /\ c \in Channels \ sig.seen
    /\ closed' = closed \cup {c}
    /\ sig' = [sig EXCEPT !.seen = @ \cup {c}]
    /\ UNCHANGED <<mode, proc, file, traces, miner, wd, cntrlc, rosterR, rosterDisk>>
    /\ UNCHANGED nonSys

SigNotify ==
    /\ proc = "up"
    /\ sig.pc = "closing"
    /\ (sig.first \cap Channels) \subseteq sig.seen
    /\ cntrlc' = TRUE
    /\ sig' = [pc |-> "done", first |-> {}, seen |-> {}]
    /\ UNCHANGED <<mode, proc, file, traces, closed, miner, wd, rosterR, rosterDisk>>
    /\ UNCHANGED nonSys

(***************************************************************************)
(* Maps used without their lock.  r.TraceFile reads Roster.R without the   *)
(* Roster's lock, and the interrupt goroutine ranges over t.traces without *)
(* the lock of stat: when such a use meets a write of the map by another   *)
(* goroutine, the Go runtime may end the process (concurrent map read or   *)
(* iteration and map write); otherwise the use sees the map before or      *)
(* after the write, as in the steps above.                                 *)
(***************************************************************************)
\* r.TraceFile(fileName) in checkFile while a Miner is about to write r.R in Save.
RosterRace ==
    /\ proc = "up"
    /\ wd.pc = "open"
    /\ \E m \in MinerIds : miner[m].pc = "save"
    /\ proc' = "fatal"
    /\ UNCHANGED <<mode, file, traces, closed, miner, wd, sig, cntrlc, rosterR, rosterDisk>>
    /\ UNCHANGED nonSys

\* range t.traces while deleteTrace or addOrGetTrace (for an event on one of the
\* paths PS) is about to write the map.
TracesRace(PS) ==
    /\ proc = "up"
    /\ sig.pc = "closing"
    /\ \/ \E m \in MinerIds : miner[m].pc = "failed"
       \/ wd.pc = "select" /\ \E p \in PS : LaunchMiner(p)
    /\ proc' = "fatal"
    /\ UNCHANGED <<mode, file, traces, closed, miner, wd, sig, cntrlc, rosterR, rosterDisk>>
    /\ UNCHANGED nonSys

(***************************************************************************)
(* The database server process appends to a trace file, byte by byte.      *)
(* The file is followed for as long as the process runs.                   *)
(***************************************************************************)
FileBytes == {"a", LF, CR}

FsAppend(p, b, limit) ==
    /\ proc = "up"
    /\ Len(file[p]) < limit
    /\ file' = [file EXCEPT ![p] = Append(@, b)]
    /\ UNCHANGED <<mode, proc, traces, closed, miner, wd, sig, cntrlc, rosterR, rosterDisk>>
    /\ UNCHANGED nonSys

\* The file is overwritten by another process: it starts again empty.
FsTruncate(p) ==
    /\ proc = "up"
    /\ file[p] # <<>>
    /\ file' = [file EXCEPT ![p] = <<>>]
    /\ UNCHANGED <<mode, proc, traces, closed, miner, wd, sig, cntrlc, rosterR, rosterDisk>>
    /\ UNCHANGED nonSys

(***************************************************************************)
(* The trace parser and the cursor table (sink package).                   *)
(* A trace record is kept as what the parser reads off its text:           *)
(*   type  "pic" begins with PARSING IN CURSOR and contains sqlid,         *)
(*         "pef" begins with PARSE #, EXEC # or FETCH #, "invalid" else    *)
(*   form  "ok", or what is wrong with the text:                           *)
(*         "short"   too few words                                         *)
(*         "stub"    a 13th word of fewer than 7 bytes                     *)
(*         "badcur"  a cursor number that is not a number                  *)
(*         "badattr" a len=, dep=, uid=, oct= or lid= that is not a number *)
(*         "badcpu", "badela"  a c= or e= that is not a number             *)
(*   cur, sqlid, cpu, ela  the fields, where the form allows them          *)
(* cpu and ela are microseconds as in the trace.  The float64 values of    *)
(* parseRecord, in milliseconds, are kept in thousandths of a millisecond. *)
(***************************************************************************)
NoThread == 0
CursorIds == {17, 18}
SQLIDs == {"abc", "def", "zzz"}
Elas == {500, 1000, 5000}

Rec(type, form, cur, sqlid, ela) ==
    [type |-> type, form |-> form, cur |-> cur, sqlid |-> sqlid, cpu |-> 100, ela |-> ela]

PicRecs ==
    {Rec("pic", "ok", c, q, 0) : c \in CursorIds, q \in SQLIDs}
        \cup {Rec("pic", f, 17, "def", 0) : f \in {"short", "stub", "badcur", "badattr"}}
PefRecs ==
    {Rec("pef", "ok", c, "", e) : c \in CursorIds, e \in Elas}
        \cup {Rec("pef", f, 17, "", 5000) : f \in {"short", "badcur", "badcpu", "badela"}}
Records == {Rec("invalid", "ok", 0, "", 0)} \cup PicRecs \cup PefRecs

\* The const block of the sink package.
traceRecordTypeInvalid == 0
traceRecordTypeParsingInCursor == 1
traceRecordTypeParseExecFetch == 2

\* The divisor of float64(ela) / 1000.
Milli == 1000

\* float64(n) of a whole number of milliseconds, in thousandths.
Float64(n) == n * Milli

\* MonitoredSQL as loadSQL builds it: the stats start at zero.
MonitoredSQL(tx, thr, ids) ==
    [BusinessTxName |-> tx, ELAThreshold |-> thr, SQLID |-> ids,
     LastELA |-> 0, WorstELA |-> 0, NumViolations |-> 0]

\* cursor.NewCursor (the attributes of parseOtherAttr are not kept).
NewCursor(id, sqlid, tx, thr) ==
    [CursorID |-> id, SQLID |-> sqlid, BusinessTxName |-> tx, ELAThreshold |-> thr]
NoCursor == [CursorID |-> 0, SQLID |-> "", BusinessTxName |-> "", ELAThreshold |-> 0]
NoCursors == [k \in CursorIds |-> NoCursor]

\* CursorTrackerProtected.hasValue
hasValue(ct, key) == ct[key] # NoCursor

traceRecordType(rec) ==
    IF rec.type = "pic" THEN traceRecordTypeParsingInCursor
    ELSE IF rec.type = "pef" THEN traceRecordTypeParseExecFetch
    ELSE traceRecordTypeInvalid

\* parseSQLID: an error for 12 words or fewer; words[12][7:] panics on a short word.
parseSQLID(rec) ==
    IF rec.form = "short" THEN "err" ELSE IF rec.form = "stub" THEN "panic" ELSE "ok"

\* parseOtherAttr: an error when one of the five numbers does not parse.
parseOtherAttr(rec) == IF rec.form = "badattr" THEN "err" ELSE "ok"

\* openCursor: parseOtherAttr, then cursor.NewCursor.
openCursor(rec, id, sqlid, tx, thr) ==
    IF parseOtherAttr(rec) # "ok"
    THEN [err |-> TRUE, cur |-> NoCursor]
    ELSE [err |-> FALSE, cur |-> NewCursor(id, sqlid, tx, thr)]

\* A slip in interestingSQL: the last row that lists the SQL id wins.
interestingSQLLast(getSQLID, W) ==
    LET hits == {i \in 1..Len(W) : getSQLID \in W[i].SQLID} IN
    IF hits = {}
    THEN [ok |-> FALSE, tx |-> "", thr |-> -1]
    ELSE LET i == CHOOSE i \in hits : \A j \in hits : i >= j IN
         [ok |-> TRUE, tx |-> W[i].BusinessTxName, thr |-> W[i].ELAThreshold]

\* interestingSQL: the first row of the watch list that lists the SQL id.
interestingSQL(getSQLID, W) ==
    LET hits == {i \in 1..Len(W) : getSQLID \in W[i].SQLID} IN
    IF hits = {}
    THEN [ok |-> FALSE, tx |-> "", thr |-> -1]
    ELSE LET i == CHOOSE i \in hits : \A j \in hits : i <= j IN
         [ok |-> TRUE, tx |-> W[i].BusinessTxName, thr |-> W[i].ELAThreshold]

\* compareAndSet, run by one goroutine alone: open is the result open() would give.
compareAndSet(ct, key, open) ==
    IF hasValue(ct, key) THEN [Cursors |-> ct, err |-> "existing"]
    ELSE IF open.err THEN [Cursors |-> ct, err |-> "open"]
    ELSE [Cursors |-> [ct EXCEPT ![key] = open.cur], err |-> "nil"]

\* parsingInCursor
parsingInCursor(rec, W, ct) ==
    LET want == interestingSQL(rec.sqlid, W)
        set == compareAndSet(ct, rec.cur,
                             openCursor(rec, rec.cur, rec.sqlid, want.tx, want.thr))
        new == [status |-> "ok", newCursor |-> TRUE, getCursorID |-> -1, getSQLID |-> "",
                businessTxName |-> "", elaThreshold |-> -1, Cursors |-> ct]
    IN  IF parseSQLID(rec) # "ok" THEN [new EXCEPT !.status = parseSQLID(rec)]
        ELSE IF rec.form = "badcur" THEN [new EXCEPT !.status = "err"]
        ELSE IF ~want.ok THEN new
        ELSE IF set.err = "existing"
             THEN [status |-> "ok", newCursor |-> FALSE, getCursorID |-> rec.cur,
                   getSQLID |-> rec.sqlid, businessTxName |-> want.tx,
                   elaThreshold |-> want.thr, Cursors |-> ct]
        ELSE IF set.err # "nil" THEN [new EXCEPT !.status = "err"]
        ELSE [new EXCEPT !.Cursors = set.Cursors]

\* A slip in parseExec: c= and e= are read before the cursor is looked up.
parseExecReadsFirst(rec, ct) ==
    LET no == [status |-> "ok", isKnown |-> FALSE, cursorID |-> 0, cpu |-> 0, ela |-> 0] IN
    IF rec.form = "short" THEN [no EXCEPT !.status = "err"]
    ELSE IF rec.form = "badcur" THEN [no EXCEPT !.status = "err"]
    ELSE IF rec.form \in {"badcpu", "badela"} THEN [no EXCEPT !.status = "fatal"]
    ELSE IF ~hasValue(ct, rec.cur) THEN no
    ELSE [status |-> "ok", isKnown |-> TRUE, cursorID |-> rec.cur,
          cpu |-> rec.cpu, ela |-> rec.ela]

\* parseExec: log.Fatal ends the process when c= or e= of a known cursor's record
\* is not a number.
parseExec(rec, ct) ==
    LET no == [status |-> "ok", isKnown |-> FALSE, cursorID |-> 0, cpu |-> 0, ela |-> 0] IN
    IF rec.form = "short" THEN [no EXCEPT !.status = "err"]
    ELSE IF rec.form = "badcur" THEN [no EXCEPT !.status = "err"]
    ELSE IF ~hasValue(ct, rec.cur) THEN no
    ELSE IF rec.form \in {"badcpu", "badela"} THEN [no EXCEPT !.status = "fatal"]
    ELSE [status |-> "ok", isKnown |-> TRUE, cursorID |-> rec.cur,
          cpu |-> rec.cpu, ela |-> rec.ela]

\* A slip in parseRecord: the comparison with the threshold is missing.
BelowThresholdNever(elaF, threshold) == FALSE

\* A slip in parseRecord: an elapsed time equal to the threshold is not a violation.
BelowOrAtThreshold(elaF, threshold) == elaF <= threshold

\* if elaF < threshold { ... return &parsedSummary{}, nil }
BelowThreshold(elaF, threshold) == elaF < threshold

\* A slip in setViolations: the worst elapsed time is overwritten by the last.
setViolationsWorstIsLast(W, busTxName, elaF) ==
    LET hits == {i \in 1..Len(W) : W[i].BusinessTxName = busTxName} IN
    IF hits = {}
    THEN [err |-> TRUE, watch |-> W, row |-> 0]
    ELSE LET i == CHOOSE i \in hits : \A j \in hits : i <= j
             row == [W[i] EXCEPT !.LastELA = elaF,
                                 !.WorstELA = elaF,
                                 !.NumViolations = @ + 1]
         IN  [err |-> FALSE, watch |-> [W EXCEPT ![i] = row], row |-> i]

\* A slip in setViolations: the worst elapsed time is never raised.
setViolationsKeepsWorst(W, busTxName, elaF) ==
    LET hits == {i \in 1..Len(W) : W[i].BusinessTxName = busTxName} IN
    IF hits = {}
    THEN [err |-> TRUE, watch |-> W, row |-> 0]
    ELSE LET i == CHOOSE i \in hits : \A j \in hits : i <= j
             row == [W[i] EXCEPT !.LastELA = elaF,
                                 !.NumViolations = @ + 1]
         IN  [err |-> FALSE, watch |-> [W EXCEPT ![i] = row], row |-> i]

\* setViolations: the first row with the business-tx name gets the new stats.
setViolations(W, busTxName, elaF) ==
    LET hits == {i \in 1..Len(W) : W[i].BusinessTxName = busTxName} IN
    IF hits = {}
    THEN [err |-> TRUE, watch |-> W, row |-> 0]
    ELSE LET i == CHOOSE i \in hits : \A j \in hits : i <= j
             row == [W[i] EXCEPT !.LastELA = elaF,
                                 !.WorstELA = IF W[i].WorstELA < elaF THEN elaF ELSE @,
                                 !.NumViolations = @ + 1]
         IN  [err |-> FALSE, watch |-> [W EXCEPT ![i] = row], row |-> i]

NoSummary ==
    [businessTxName |-> "", threshold |-> 0, sqlID |-> "",
     worstELA |-> 0, lastELA |-> 0, numViolations |-> 0]

\* parseRecord: the summary, the error status ("ok", "err", or the end of the process
\* by "fatal" or "panic"), and the watch list and cursor table it leaves.
parseRecord(rec, W, ct) ==
    LET empty == [status |-> "ok", isViolation |-> FALSE, summary |-> NoSummary,
                  watch |-> W, Cursors |-> ct]
    IN
    IF traceRecordType(rec) = traceRecordTypeInvalid THEN empty
    ELSE IF traceRecordType(rec) = traceRecordTypeParsingInCursor
    THEN LET pic == parsingInCursor(rec, W, ct)
             again == openCursor(rec, pic.getCursorID, pic.getSQLID,
                                 pic.businessTxName, pic.elaThreshold)
         IN  IF pic.status # "ok" THEN [empty EXCEPT !.status = pic.status]
             ELSE IF pic.newCursor THEN [empty EXCEPT !.Cursors = pic.Cursors]
             ELSE IF pic.getSQLID = ct[pic.getCursorID].SQLID THEN empty
             ELSE IF again.err
                  THEN [empty EXCEPT !.status = "err",
                                     !.Cursors = [ct EXCEPT ![pic.getCursorID] = NoCursor]]
             ELSE [empty EXCEPT !.Cursors = [ct EXCEPT ![pic.getCursorID] = again.cur]]
    ELSE LET pe == parseExec(rec, ct)
             curTemp == ct[pe.cursorID]
             threshold == Float64(curTemp.ELAThreshold)
             elaF == pe.ela
             sv == setViolations(W, curTemp.BusinessTxName, elaF)
         IN  IF pe.status # "ok" THEN [empty EXCEPT !.status = pe.status]
             ELSE IF ~pe.isKnown THEN empty
             ELSE IF BelowThreshold(elaF, threshold) THEN empty
             ELSE IF sv.err THEN [empty EXCEPT !.status = "err"]
             ELSE [status |-> "ok", isViolation |-> TRUE,
                   summary |-> [businessTxName |-> curTemp.BusinessTxName,
                                threshold |-> threshold,
                                sqlID |-> curTemp.SQLID,
                                worstELA |-> sv.watch[sv.row].WorstELA,
                                lastELA |-> sv.watch[sv.row].LastELA,
                                numViolations |-> sv.watch[sv.row].NumViolations],
                   watch |-> sv.watch, Cursors |-> ct]

\* How Dump ends for the Miner that called it: parseRecord's error or the Sink's.
DumpResult(pr, sinkOk) ==
    IF pr.status = "err" THEN "failed"
    ELSE IF pr.status # "ok" THEN pr.status
    ELSE IF pr.isViolation /\ ~sinkOk THEN "failed"
    ELSE "run"

\* The watch lists loadSQL may have built: every business-tx in one row.
WatchLists ==
    { <<MonitoredSQL("OE", 1, {"abc"})>>,
      <<MonitoredSQL("OE", 1, {"abc"}), MonitoredSQL("GL", 5, {"def"})>>,
      <<MonitoredSQL("OE", 1, {"abc", "def"}), MonitoredSQL("GL", 5, {"def"})>> }

\* dumper.Dump(ctx, client, service, v) by the one Miner of SpecParser: parseRecord,
\* then the Sink when the record is a violation.
PsDump(rec, sinkOk) ==
    /\ psState = "run"
    /\ Len(psPrefix) < MaxRecs
    /\ LET pr == parseRecord(rec, watch, cursors) IN
         /\ watch' = pr.watch
         /\ cursors' = pr.Cursors
         /\ emitted' = IF pr.status = "ok" /\ pr.isViolation /\ sinkOk
                       THEN Append(emitted, pr.summary) ELSE emitted
         /\ psState' = DumpResult(pr, sinkOk)
    /\ psPrefix' = Append(psPrefix, rec)
    /\ UNCHANGED <<sysVars, inVars, xfVars, roVars, rdVars, casVars, rsVars>>

(***************************************************************************)
(* compareAndSet called by several goroutines (SpecCursor): every Miner    *)
(* calls Dump on the one dumper that output() built, so that the calls of  *)
(* parsingInCursor meet on one cursor table.                               *)
(*   pc: "lock"  in c.Lock()          "check" at the lookup c.Cursors[key] *)
(*       "open"  about to call open() "set"   at c.Cursors[key] = cur      *)
(*       "ret"   at the return, with the deferred c.Unlock() to run        *)
(***************************************************************************)
Threads == 1..MaxThreads
IdleCall ==
    [pc |-> "idle", key |-> 0, sqlid |-> "", invoked |-> FALSE, result |-> "",
     before |-> NoCursors]

\* The calls begun and not yet returned.
Calling == {t \in Threads : cas[t].pc # "idle"}

\* parsingInCursor reaches curTracker.compareAndSet(getCursorID, ...) for a watched SQL.
CasCall(t, k, q) ==
    /\ cas[t].pc = "idle"
    /\ Len(casLog) + Cardinality(Calling) < MaxCasCalls
    /\ cas' = [cas EXCEPT ![t] = [IdleCall EXCEPT !.pc = "lock", !.key = k, !.sqlid = q]]
    /\ UNCHANGED <<ctLock, casLog, cursors>>
    /\ UNCHANGED <<sysVars, inVars, xfVars, roVars, rdVars, watch, emitted, psVars, rsVars>>

\* A slip: Lock() that does not wait for the holder.
CanLockAlways(t) == TRUE

\* sync.RWMutex.Lock: granted when nobody holds the lock.
CanLock(t) == ctLock = NoThread

\* c.Lock()
CasLock(t) ==
    /\ cas[t].pc = "lock"
    /\ CanLock(t)
    /\ ctLock' = t
    /\ cas' = [cas EXCEPT ![t].pc = "check"]
    /\ UNCHANGED <<casLog, cursors>>
    /\ UNCHANGED <<sysVars, inVars, xfVars, roVars, rdVars, watch, emitted, psVars, rsVars>>

\* if _, ok := c.Cursors[key]; ok { return nil, errExistingCursor }
CasCheck(t) ==
    /\ cas[t].pc = "check"
    /\ cas' = [cas EXCEPT ![t].before = cursors,
                          ![t].pc = IF hasValue(cursors, cas[t].key) THEN "ret" ELSE "open",
                          ![t].result = IF hasValue(cursors, cas[t].key) THEN "existing" ELSE ""]
    /\ UNCHANGED <<ctLock, casLog, cursors>>
    /\ UNCHANGED <<sysVars, inVars, xfVars, roVars, rdVars, watch, emitted, psVars, rsVars>>

\* cur, err := open(); if err != nil { return nil, fmt.Errorf(...) }
CasOpen(t, ok) ==
    /\ cas[t].pc = "open"
    /\ cas' = [cas EXCEPT ![t].invoked = TRUE,
                          ![t].pc = IF ok THEN "set" ELSE "ret",
                          ![t].result = IF ok THEN "" ELSE "error"]
    /\ UNCHANGED <<ctLock, casLog, cursors>>
    /\ UNCHANGED <<sysVars, inVars, xfVars, roVars, rdVars, watch, emitted, psVars, rsVars>>

\* The Cursor that the open function of call t builds.
CasCursor(t) == NewCursor(cas[t].key, cas[t].sqlid, "OE", 1)

\* c.Cursors[key] = cur; return cur, nil
CasSet(t) ==
    /\ cas[t].pc = "set"
    /\ cursors' = [cursors EXCEPT ![cas[t].key] = CasCursor(t)]
    /\ cas' = [cas EXCEPT ![t].pc = "ret", ![t].result = "opened"]
    /\ UNCHANGED <<ctLock, casLog>>
    /\ UNCHANGED <<sysVars, inVars, xfVars, roVars, rdVars, watch, emitted, psVars, rsVars>>

\* The return: the deferred c.Unlock() runs and the caller has its result.
CasReturn(t) ==
    /\ cas[t].pc = "ret"
    /\ ctLock' = NoThread
    /\ casLog' = Append(casLog, [thread |-> t, key |-> cas[t].key, sqlid |-> cas[t].sqlid,
                                 result |-> cas[t].result, invoked |-> cas[t].invoked,
                                 before |-> cas[t].before, after |-> cursors])
    /\ cas' = [cas EXCEPT ![t] = IdleCall]
    /\ UNCHANGED cursors
    /\ UNCHANGED <<sysVars, inVars, xfVars, roVars, rdVars, watch, emitted, psVars, rsVars>>

(***************************************************************************)
(* One trace file read and parsed across a restart of the process          *)
(* (SpecResume).  The file is kept as its lines, each a well-formed record;*)
(* offsets count lines; the Sink accepts every summary.                    *)
(***************************************************************************)
NoCut == [at |-> -1, emitted |-> 0, clean |-> FALSE]

ResumeRecs ==
    {Rec("invalid", "ok", 0, "", 0), Rec("pic", "ok", 17, "abc", 0),
     Rec("pef", "ok", 17, "", 500), Rec("pef", "ok", 17, "", 5000)}

\* The watch list that LoadSQL builds at every start of the process.
ResumeWatch == <<MonitoredSQL("OE", 1, {"abc"})>>

\* The database server process appends a line to the trace file.
RsAppend(rec) ==
    /\ Len(rsFile) < MaxResumeLines
    /\ rsFile' = Append(rsFile, rec)
    /\ UNCHANGED <<rsOffset, rsRoster, rsCut, dumpVars>>
    /\ UNCHANGED <<sysVars, inVars, xfVars, roVars, rdVars, psVars, casVars>>

\* One round of Mine that finds a record: ReadRecords returns the next line and Dump
\* parses it and sends a violation to the Sink.
RsDump ==
    /\ rsOffset < Len(rsFile)
    /\ LET pr == parseRecord(rsFile[rsOffset + 1], watch, cursors) IN
         /\ watch' = pr.watch
         /\ cursors' = pr.Cursors
         /\ emitted' = IF pr.isViolation THEN Append(emitted, pr.summary) ELSE emitted
    /\ rsOffset' = rsOffset + 1
    /\ UNCHANGED <<rsFile, rsRoster, rsCut>>
    /\ UNCHANGED <<sysVars, inVars, xfVars, roVars, rdVars, psVars, casVars>>

\* One round of Mine that finds nothing: tf.UpdateRoster() writes the offset.
RsSave ==
    /\ rsOffset = Len(rsFile)
    /\ rsRoster # rsOffset
    /\ rsRoster' = rsOffset
    /\ UNCHANGED <<rsFile, rsOffset, rsCut, dumpVars>>
    /\ UNCHANGED <<sysVars, inVars, xfVars, roVars, rdVars, psVars, casVars>>

\* The process ends and is started again: output() makes a new cursor table and loads
\* the watch list, LoadRoster reads the roster file and Roster.TraceFile resumes the
\* file at the offset of its record (OpenTraceFile at 0 when there is none).
RsRestart ==
    /\ rsCut = NoCut
    /\ cursors' = NoCursors
    /\ watch' = ResumeWatch
    /\ rsOffset' = IF rsRoster = -1 THEN 0 ELSE rsRoster
    /\ rsCut' = [at |-> rsOffset', emitted |-> Len(emitted), clean |-> rsRoster = rsOffset]
    /\ UNCHANGED <<rsFile, rsRoster, emitted>>
    /\ UNCHANGED <<sysVars, inVars, xfVars, roVars, rdVars, psVars, casVars>>

(***************************************************************************)
(* The Miners of two trace files (SpecShare).  Run calls output() once and *)
(* hands the one dumper, with its one CursorTrackerProtected, to every     *)
(* checkFile and so to every Miner.  The records are well formed and the   *)
(* Sink accepts every summary.                                             *)
(***************************************************************************)
ShareRecs ==
    {Rec("pic", "ok", 17, "abc", 0), Rec("pic", "ok", 17, "zzz", 0),
     Rec("pef", "ok", 17, "", 5000)}

\* The watch list of SpecShare.
ShareWatch == <<MonitoredSQL("OE", 1, {"abc"})>>

\* dumper.Dump(ctx, client, service, v) by the Miner of file f.
XfDump(f, rec) ==
    /\ Len(xfLog) < MaxShareSteps
    /\ LET pr == parseRecord(rec, watch, cursors) IN
         /\ watch' = pr.watch
         /\ cursors' = pr.Cursors
         /\ emitted' = IF pr.isViolation THEN Append(emitted, pr.summary) ELSE emitted
         /\ xfLog' = Append(xfLog, [file |-> f, kind |-> "dump", rec |-> rec,
                                    known |-> parseExec(rec, cursors).isKnown])
    /\ UNCHANGED <<sysVars, inVars, rdVars, psVars, casVars, rsVars, roVars>>

\* The Miner of file f returns (an error, or nil on its closed channel): Mine and the
\* goroutine of checkFile leave the cursor table as it is.
XfExit(f) ==
    /\ Len(xfLog) < MaxShareSteps
    /\ xfLog' = Append(xfLog, [file |-> f, kind |-> "exit",
                               rec |-> Rec("invalid", "ok", 0, "", 0), known |-> FALSE])
    /\ UNCHANGED <<sysVars, inVars, rdVars, dumpVars, psVars, casVars, rsVars, roVars>>

(***************************************************************************)
(* Roster.Save step by step (SpecRoster): the Miners call tf.UpdateRoster, *)
(* the process may stop at any point and start again with LoadRoster.      *)
(*   pc: "mine"   in Mine, outside UpdateRoster                            *)
(*       "map"    holds r.Lock(), before r.R[traceKey] = ...               *)
(*       "mkdir"  the map is updated and marshalled, before os.MkdirAll    *)
(*                and the open of ioutil.WriteFile                         *)
(*       "write"  WriteFile has opened the file with O_TRUNC               *)
(*       "unlock" Save is about to return (the deferred r.Unlock())        *)
(* The file names include one that is not in clean form.                   *)
(***************************************************************************)
P1x == <<"d", "", "f1">>
RosterNames == {P1, P1x, P2}
Savers == 1..MaxSavers

\* json.Unmarshal: a roster file that is not a whole document does not load.
Loadable(disk) == disk.got = "all"

NoSaver ==
    [pc |-> "none", tf |-> OpenTraceFile(NoPath), out |-> [k \in Paths |-> NoRec],
     err |-> FALSE]

\* The Miners inside Mine.
Saving == {t \in Savers : roSaver[t].pc # "none"}

\* checkFile for a file without a Miner: f, err := r.TraceFile(fileName); go Mine(f).
\* The read of r.R takes no lock: it sees the map as it is before or after the update
\* of a Save in progress (the end of the process by the runtime is a RoRestart).
RoOpen(t, p) ==
    /\ roLoad # "error"
    /\ roSaver[t].pc = "none"
    /\ \A u \in Saving : Clean(roSaver[u].tf.path) # Clean(p)
    /\ roSaver' = [roSaver EXCEPT ![t] =
                      [NoSaver EXCEPT !.pc = "mine", !.tf = RosterTraceFile(rosterR, p)]]
    /\ UNCHANGED <<rosterR, rosterDisk, roLock, roLoad>>
    /\ UNCHANGED <<sysRest, inVars, rdVars, dumpVars, psVars, casVars, rsVars, xfVars>>

\* A round of Mine that reads a record: tf.offset moves on.
RoRead(t) ==
    /\ roSaver[t].pc = "mine"
    /\ roSaver[t].tf.offset < MaxRosterOffset
    /\ roSaver' = [roSaver EXCEPT ![t].tf.offset = @ + 1]
    /\ UNCHANGED <<rosterR, rosterDisk, roLock, roLoad>>
    /\ UNCHANGED <<sysRest, inVars, rdVars, dumpVars, psVars, casVars, rsVars, xfVars>>

\* Save: r.Lock()
RoSaveLock(t) ==
    /\ roSaver[t].pc = "mine"
    /\ roLock = NoThread
    /\ roLock' = t
    /\ roSaver' = [roSaver EXCEPT ![t].pc = "map", ![t].err = FALSE]
    /\ UNCHANGED <<rosterR, rosterDisk, roLoad>>
    /\ UNCHANGED <<sysRest, inVars, rdVars, dumpVars, psVars, casVars, rsVars, xfVars>>

\* Save: r.R[traceKey] = jsonTraceFile{...}; out, err := json.MarshalIndent(r, "", "  ")
RoSaveMap(t) ==
    /\ roSaver[t].pc = "map"
    /\ rosterR' = RosterSave(rosterR, roSaver[t].tf)
    /\ roSaver' = [roSaver EXCEPT ![t].pc = "mkdir",
                                  ![t].out = RosterSave(rosterR, roSaver[t].tf)]
    /\ UNCHANGED <<rosterDisk, roLock, roLoad>>
    /\ UNCHANGED <<sysRest, inVars, rdVars, dumpVars, psVars, casVars, rsVars, xfVars>>

\* Save: os.MkdirAll, then ioutil.WriteFile opens the roster file with
\* O_WRONLY|O_CREATE|O_TRUNC; when either fails Save returns the error.
RoSaveTrunc(t, ok) ==
    /\ roSaver[t].pc = "mkdir"
    /\ rosterDisk' = IF ok THEN RosterFile(roSaver[t].out, "none") ELSE rosterDisk
    /\ roSaver' = [roSaver EXCEPT ![t].pc = IF ok THEN "write" ELSE "unlock",
                                  ![t].err = ~ok]
    /\ UNCHANGED <<rosterR, roLock, roLoad>>
    /\ UNCHANGED <<sysRest, inVars, rdVars, dumpVars, psVars, casVars, rsVars, xfVars>>

\* ioutil.WriteFile: f.Write(data) and f.Close(); the write may stop early with an
\* error (disk full), having written a part of the document or nothing.
RoSaveWrite(t, got) ==
    /\ roSaver[t].pc = "write"
    /\ rosterDisk' = RosterFile(roSaver[t].out, got)
    /\ roSaver' = [roSaver EXCEPT ![t].pc = "unlock", ![t].err = (got # "all")]
    /\ UNCHANGED <<rosterR, roLock, roLoad>>
    /\ UNCHANGED <<sysRest, inVars, rdVars, dumpVars, psVars, casVars, rsVars, xfVars>>

\* Save returns: the deferred r.Unlock(); Mine drops the error of tf.UpdateRoster().
RoSaveUnlock(t) ==
    /\ roSaver[t].pc = "unlock"
    /\ roLock' = NoThread
    /\ roSaver' = [roSaver EXCEPT ![t].pc = "mine", ![t].out = NoSaver.out, ![t].err = FALSE]
    /\ UNCHANGED <<rosterR, rosterDisk, roLoad>>
    /\ UNCHANGED <<sysRest, inVars, rdVars, dumpVars, psVars, casVars, rsVars, xfVars>>

\* Mine returns: the Miner of the file is gone.
RoExit(t) ==
    /\ roSaver[t].pc = "mine"
    /\ roSaver' = [roSaver EXCEPT ![t] = NoSaver]
    /\ UNCHANGED <<rosterR, rosterDisk, roLock, roLoad>>
    /\ UNCHANGED <<sysRest, inVars, rdVars, dumpVars, psVars, casVars, rsVars, xfVars>>

\* LoadRoster: the document of the roster file, or an error (Run then calls
\* os.Exit(1)) when the file does not hold a whole document.
LoadRoster(disk) ==
    IF Loadable(disk)
    THEN [R |-> disk.doc, err |-> FALSE]
    ELSE [R |-> [k \in Paths |-> NoRec], err |-> TRUE]

\* The process ends at any point (a crash, a kill, the interrupt) and is started
\* again: Run calls LoadRoster on what the roster file holds.
RoRestart ==
    /\ rosterR' = LoadRoster(rosterDisk).R
    /\ roLoad' = IF LoadRoster(rosterDisk).err THEN "error" ELSE "ok"
    /\ roLock' = NoThread
    /\ roSaver' = [t \in Savers |-> NoSaver]
    /\ UNCHANGED rosterDisk
    /\ UNCHANGED <<sysRest, inVars, rdVars, dumpVars, psVars, casVars, rsVars, xfVars>>

(***************************************************************************)
(* One TraceFile read by successive calls of ReadRecords (SpecReader).     *)
(***************************************************************************)
\* The byte sequences of length at most n.
RECURSIVE SeqsUpTo(_)
SeqsUpTo(n) ==
    IF n = 0 THEN {<<>>}
    ELSE LET S == SeqsUpTo(n - 1) IN S \cup {Append(q, b) : q \in S, b \in FileBytes}

\* strs, err := tf.ReadRecords() on an open TraceFile.
RdCall ==
    /\ Len(rdOut) < MaxCalls
    /\ LET r == ReadRecords(rdFile, rdOffset) IN
         /\ rdOffset' = r.offset
         /\ rdOut' = Append(rdOut, [at |-> rdOffset, recs |-> r.records])
    /\ UNCHANGED rdFile
    /\ UNCHANGED <<sysVars, inVars, xfVars, roVars, dumpVars, psVars, casVars, rsVars>>

(***************************************************************************)
(* The watch-list file and loadSQL (sink package), SpecLoad.               *)
(* A string is kept as the sequence of its pieces: a space, a double       *)
(* quote, the comment rune or a run of other bytes.  A line is the         *)
(* sequence of its comma-separated fields as they stand in the file.       *)
(***************************************************************************)
SP == " "
QT == "\""
HASH == "#"

\* r.TrimLeadingSpace = true: the spaces before a field are dropped.
RECURSIVE TrimLeadingSpace(_)
TrimLeadingSpace(raw) ==
    IF raw # <<>> /\ Head(raw) = SP THEN TrimLeadingSpace(Tail(raw)) ELSE raw

\* A field as csv.Reader returns it: a field that begins with a quote is the text
\* up to its closing quote, any other field is kept as it stands.
csvField(raw) ==
    LET t == TrimLeadingSpace(raw) IN
    IF t # <<>> /\ Head(t) = QT THEN SubSeq(t, 2, Len(t) - 1) ELSE t

\* r.Comment = '#': a line that begins with the comment rune is skipped, and so is
\* an empty line.
csvSkipped(line) == line = <<>> \/ (line[1] # <<>> /\ Head(line[1]) = HASH)

\* The record csv.Reader builds from a line (r.FieldsPerRecord = -1: any length).
csvRecord(line) == [i \in 1..Len(line) |-> csvField(line[i])]

\* strconv.Atoi on the decimal numbers of the model; anything else is an error.
Atoi(text) ==
    IF text = <<"1">> THEN [err |-> FALSE, n |-> 1]
    ELSE IF text = <<"10">> THEN [err |-> FALSE, n |-> 10]
    ELSE IF text = <<"17">> THEN [err |-> FALSE, n |-> 17]
    ELSE IF text = <<"18">> THEN [err |-> FALSE, n |-> 18]
    ELSE IF text = <<"100">> THEN [err |-> FALSE, n |-> 100]
    ELSE IF text = <<"500">> THEN [err |-> FALSE, n |-> 500]
    ELSE IF text = <<"5000">> THEN [err |-> FALSE, n |-> 5000]
    ELSE [err |-> TRUE, n |-> 0]

\* A slip in loadSQL: the SQL ids are taken from record[1:].
SQLIDFromThreshold(record) == SubSeq(record, 2, Len(record))

\* SQLID: record[2:]
SQLIDColumns(record) == SubSeq(record, 3, Len(record))

\* The lines of a watch-list file: an empty line, a comment, a line of spaces,
\* a line of one field, and records with and without quotes.
LdNames == {<<QT, "OE", QT>>, <<"GL">>}
LdThresholds == {<<SP, "1">>, <<SP, QT, "10", QT>>, <<SP, "x">>, <<SP, "1", SP>>}
LdIds == {<<>>, <<<<SP, "abc">>>>, <<<<SP, QT, "abc", QT>>, <<SP, "def">>>>}
LdLines ==
    {<<>>, <<<<HASH, "OE">>, <<SP, "1">>>>, <<<<SP>>>>, <<<<"OE">>>>}
        \cup {<<n, t>> \o ids : n \in LdNames, t \in LdThresholds, ids \in LdIds}

RECURSIVE LdFiles(_)
LdFiles(n) ==
    IF n = 0 THEN {<<>>}
    ELSE LET S == LdFiles(n - 1) IN S \cup {Append(f, l) : f \in S, l \in LdLines}

\* The lines after pos that r.Read() does not skip.
LdRecordsAfter(f, pos) == {i \in (pos + 1)..Len(f) : ~csvSkipped(f[i])}

\* One turn of the loop of loadSQL: r.Read() up to the next record or io.EOF, then
\* strconv.Atoi(record[1]) and the append.  record[1] of a record of one field is
\* out of range, which ends the process.
LdRead ==
    /\ ld.status = "reading"
    /\ LET next == LdRecordsAfter(ld.file, ld.pos) IN
       IF next = {}
       THEN ld' = [ld EXCEPT !.pos = Len(ld.file), !.status = "done"]
       ELSE LET i == CHOOSE i \in next : \A j \in next : i <= j
                record == csvRecord(ld.file[i])
                elaThres == Atoi(record[2])
            IN  IF Len(record) < 2
                THEN ld' = [ld EXCEPT !.pos = i, !.s = <<>>, !.status = "panic"]
                ELSE IF elaThres.err
                THEN ld' = [ld EXCEPT !.pos = i, !.s = <<>>, !.status = "error"]
                ELSE ld' = [ld EXCEPT !.pos = i,
                                      !.s = Append(@, MonitoredSQL(record[1], elaThres.n,
                                                                   SQLIDColumns(record)))]
    /\ UNCHANGED <<awr, svCall, lxVars>>
    /\ UNCHANGED <<sysVars, rdVars, dumpVars, psVars, casVars, rsVars, xfVars, roVars>>

(***************************************************************************)
(* The AWR report and ParseAWR (sqlinput package), SpecAwr.                *)
(* A line of the report is the sequence of its pieces: a form feed, the    *)
(* words "SQL ordered by Elapsed Time" as they stand after a form feed in  *)
(* the header of the section, or a single word.                            *)
(***************************************************************************)
FF == "\f"
HdrText == "SQL ordered by Elapsed Time"

\* const fieldsInAWRReport = 7
fieldsInAWRReport == 7

\* strings.HasPrefix(v, sqlOrderedByELA): the constant is a form feed followed by
\* the words SQL ordered by Elapsed Time.
HasPrefixSqlOrderedByELA(v) == Len(v) >= 2 /\ v[1] = FF /\ v[2] = HdrText

\* strings.HasPrefix(v, cntrlL)
HasPrefixCntrlL(v) == v # <<>> /\ v[1] = FF

\* strings.FieldsFunc(rec, unicode.IsSpace): a form feed is white space, and the
\* header text is five words.
RECURSIVE Fields(_)
Fields(v) ==
    IF v = <<>> THEN <<>>
    ELSE IF Head(v) = FF THEN Fields(Tail(v))
    ELSE IF Head(v) = HdrText
         THEN <<"SQL", "ordered", "by", "Elapsed", "Time">> \o Fields(Tail(v))
    ELSE <<Head(v)>> \o Fields(Tail(v))

\* strconv.ParseFloat(words[2], 64) succeeds on the numbers of the model.
ParseFloatOk(w) == w \in {"1.5", "26.3"}

\* A slip in parseAWRLine: a line with more words than wanted is accepted.
WantedFieldsAtLeast(n, fieldsNumber) == n >= fieldsNumber

\* if len(words) != fieldsNumber { return nil, fmt.Errorf(...) }
WantedFields(n, fieldsNumber) == n = fieldsNumber

\* parseAWRLine: the ExpensiveSQL of a line, or an error.
parseAWRLine(rec, fieldsNumber) ==
    LET words == Fields(rec) IN
    IF ~WantedFields(Len(words), fieldsNumber) THEN [err |-> TRUE, s |-> <<>>]
    ELSE IF ~ParseFloatOk(words[3]) THEN [err |-> TRUE, s |-> <<>>]
    ELSE [err |-> FALSE,
          s |-> [sqlid |-> words[7], elaPerExecString |-> words[3],
                 ela |-> words[1], execs |-> words[2]]]

\* for _, v := range strs { ... }: the flag and the list after the records of one
\* batch; both break statements leave the rest of the batch unread.
RECURSIVE AwrBatch(_, _, _)
AwrBatch(strs, analyzeLineByLine, expSQL) ==
    IF strs = <<>> THEN [analyzeLineByLine |-> analyzeLineByLine, expSQL |-> expSQL]
    ELSE LET v == Head(strs)
             s == parseAWRLine(v, fieldsInAWRReport)
         IN  IF HasPrefixSqlOrderedByELA(v)
             THEN [analyzeLineByLine |-> TRUE, expSQL |-> expSQL]
             ELSE IF ~analyzeLineByLine
             THEN AwrBatch(Tail(strs), analyzeLineByLine, expSQL)
             ELSE IF HasPrefixCntrlL(v)
             THEN [analyzeLineByLine |-> FALSE, expSQL |-> expSQL]
             ELSE AwrBatch(Tail(strs), analyzeLineByLine,
                           IF s.err THEN expSQL ELSE Append(expSQL, s.s))

\* The lines of a report: the header of the section, a page break, the header of
\* another section, a page break before a line of seven fields, lines of seven
\* fields with and without a number in the third, lines of other lengths, and the
\* words of the header without the form feed.
AwrLines ==
    { <<FF, HdrText, "DB/Inst:">>,
      <<FF>>,
      <<FF, "SQL", "ordered", "by", "CPU">>,
      <<FF, "9.0", "3", "1.5", "10.0", "50.0", "0.0", "ffff">>,
      <<"7.9", "6", "1.5", "26.3", "99.9", "0.0", "5vx5">>,
      <<"5.6", "2", "26.3", "18.9", "98.7", "0.1", "2x71">>,
      <<"5.6", "2", "n/a", "18.9", "98.7", "0.1", "3na5">>,
      <<"Module:", "sqlplus">>,
      <<"5.6", "2", "1.5", "18.9", "98.7", "0.1", "zzzz", "more">>,
      <<HdrText, "1.5", "x">> }

RECURSIVE AwrFiles(_)
AwrFiles(n) ==
    IF n = 0 THEN {<<>>}
    ELSE LET S == AwrFiles(n - 1) IN S \cup {Append(f, l) : f \in S, l \in AwrLines}

\* f.ReadRecords() on the report: the next recordsCount lines, none at the end.
AwrReadRecords(f, pos) ==
    SubSeq(f, pos + 1, IF pos + recordsCount <= Len(f) THEN pos + recordsCount ELSE Len(f))

\* One turn of the loop of ParseAWR: strs, err := f.ReadRecords();
\* if len(strs) == 0 { break }; for _, v := range strs { ... }
AwrRead ==
    /\ ~awr.done
    /\ LET strs == AwrReadRecords(awr.file, awr.pos)
           b == AwrBatch(strs, awr.analyzeLineByLine, awr.expSQL)
       IN  IF strs = <<>>
           THEN awr' = [awr EXCEPT !.done = TRUE]
           ELSE awr' = [awr EXCEPT !.pos = @ + Len(strs),
                                   !.analyzeLineByLine = b.analyzeLineByLine,
                                   !.expSQL = b.expSQL]
    /\ UNCHANGED <<ld, svCall, lxVars>>
    /\ UNCHANGED <<sysVars, rdVars, dumpVars, psVars, casVars, rsVars, xfVars, roVars>>

(***************************************************************************)
(* setViolations called by the Miners of several files (SpecStats): every  *)
(* Miner calls Dump on the one dumper, whose MonitoredSQLs slice is handed *)
(* to parseRecord, and setViolations writes its rows without a lock.       *)
(*   pc: "range" at for i, sw := range wantSQL, about to copy the row      *)
(*       "last"  about to write wantSQL[i].LastELA                         *)
(*       "worst" at if sw.WorstELA < elaF { wantSQL[i].WorstELA = elaF }   *)
(*       "load"  wantSQL[i].NumViolations++, about to read the counter     *)
(*       "store" about to write the counter                                *)
(*       "ret"   about to read the row for the values returned             *)
(***************************************************************************)
IdleStat == [pc |-> "idle", busTxName |-> "", elaF |-> 0, i |-> 0, sw |-> 0, n |-> 0,
             calls |-> 0]

\* The calls of setViolations begun so far.
RECURSIVE StatCalls(_)
StatCalls(T) ==
    IF T = {} THEN 0 ELSE LET t == CHOOSE t \in T : TRUE IN svCall[t].calls + StatCalls(T \ {t})

\* parseRecord reaches setViolations for a record of a cursor of the business-tx of
\* row r, with an elapsed time at or above the threshold.
SvCall(t, r, ela) ==
    /\ svCall[t].pc = "idle"
    /\ StatCalls(Threads) < MaxStatCalls
    /\ ~BelowThreshold(ela, Float64(watch[r].ELAThreshold))
    /\ svCall' = [svCall EXCEPT ![t] = [IdleStat EXCEPT !.pc = "range",
                                                        !.busTxName = watch[r].BusinessTxName,
                                                        !.elaF = ela,
                                                        !.calls = svCall[t].calls + 1]]
    /\ UNCHANGED <<ld, awr, watch, lxVars>>
    /\ UNCHANGED <<sysVars, rdVars, cursors, emitted, psVars, casVars, rsVars, xfVars, roVars>>

\* for i, sw := range wantSQL { if sw.BusinessTxName == busTxName {: sw is a copy of
\* the first row with the name.
SvRange(t) ==
    /\ svCall[t].pc = "range"
    /\ LET hits == {i \in 1..Len(watch) : watch[i].BusinessTxName = svCall[t].busTxName}
           i == CHOOSE i \in hits : \A j \in hits : i <= j
       IN  svCall' = [svCall EXCEPT ![t].pc = "last", ![t].i = i, ![t].sw = watch[i].WorstELA]
    /\ UNCHANGED <<ld, awr, watch, lxVars>>
    /\ UNCHANGED <<sysVars, rdVars, cursors, emitted, psVars, casVars, rsVars, xfVars, roVars>>

\* wantSQL[i].LastELA = elaF
SvLast(t) ==
    /\ svCall[t].pc = "last"
    /\ watch' = [watch EXCEPT ![svCall[t].i].LastELA = svCall[t].elaF]
    /\ svCall' = [svCall EXCEPT ![t].pc = "worst"]
    /\ UNCHANGED <<ld, awr, lxVars>>
    /\ UNCHANGED <<sysVars, rdVars, cursors, emitted, psVars, casVars, rsVars, xfVars, roVars>>

\* if sw.WorstELA < elaF { wantSQL[i].WorstELA = elaF }
SvWorst(t) ==
    /\ svCall[t].pc = "worst"
    /\ watch' = IF svCall[t].sw < svCall[t].elaF
                THEN [watch EXCEPT ![svCall[t].i].WorstELA = svCall[t].elaF]
                ELSE watch
    /\ svCall' = [svCall EXCEPT ![t].pc = "load"]
    /\ UNCHANGED <<ld, awr, lxVars>>
    /\ UNCHANGED <<sysVars, rdVars, cursors, emitted, psVars, casVars, rsVars, xfVars, roVars>>

\* wantSQL[i].NumViolations++: the read of the counter.
SvLoad(t) ==
    /\ svCall[t].pc = "load"
    /\ svCall' = [svCall EXCEPT ![t].pc = "store", ![t].n = watch[svCall[t].i].NumViolations]
    /\ UNCHANGED <<ld, awr, watch, lxVars>>
    /\ UNCHANGED <<sysVars, rdVars, cursors, emitted, psVars, casVars, rsVars, xfVars, roVars>>

\* wantSQL[i].NumViolations++: the value written is the value read plus one.
StoredCount(t) == svCall[t].n + 1

SvStore(t) ==
    /\ svCall[t].pc = "store"
    /\ watch' = [watch EXCEPT ![svCall[t].i].NumViolations = StoredCount(t)]
    /\ svCall' = [svCall EXCEPT ![t].pc = "ret"]
    /\ UNCHANGED <<ld, awr, lxVars>>
    /\ UNCHANGED <<sysVars, rdVars, cursors, emitted, psVars, casVars, rsVars, xfVars, roVars>>

\* return wantSQL[i].WorstELA, wantSQL[i].LastELA, wantSQL[i].NumViolations, nil
SvReturn(t) ==
    /\ svCall[t].pc = "ret"
    /\ svCall' = [svCall EXCEPT ![t] = [IdleStat EXCEPT !.calls = svCall[t].calls]]
    /\ UNCHANGED <<ld, awr, watch, lxVars>>
    /\ UNCHANGED <<sysVars, rdVars, cursors, emitted, psVars, casVars, rsVars, xfVars, roVars>>

(***************************************************************************)
(* Trace records as text (SpecLexer).  The text of a record is the sequence *)
(* of its pieces: words, the separators between them, and the LF that      *)
(* ReadRecords puts at its end.                                            *)
(***************************************************************************)
MaxLexLines == 3     \* lines handed to Dump in SpecLexer

\* The runes parseExec splits a record at.
ExecSeparators == {"#", ":", ",", "=", " "}

\* White space among the pieces (unicode.IsSpace), at which strings.Fields splits.
WhiteSpace == {" ", LF}

\* strings.HasPrefix
HasPrefix(text, pre) == Len(text) >= Len(pre) /\ SubSeq(text, 1, Len(pre)) = pre

\* strings.Contains(rec, "sqlid")
ContainsSqlid(text) == \E i \in 1..Len(text) : text[i] = "sqlid"

\* A slip in traceRecordType: the test for sqlid is missing.
traceRecordTypeByPrefix(text) ==
    IF HasPrefix(text, <<"PARSING", " ", "IN", " ", "CURSOR">>)
    THEN traceRecordTypeParsingInCursor
    ELSE IF \/ HasPrefix(text, <<"PARSE", " ", "#">>)
            \/ HasPrefix(text, <<"EXEC", " ", "#">>)
            \/ HasPrefix(text, <<"FETCH", " ", "#">>)
    THEN traceRecordTypeParseExecFetch
    ELSE traceRecordTypeInvalid

\* traceRecordType on the text of a record.
traceRecordTypeOfText(text) ==
    IF HasPrefix(text, <<"PARSING", " ", "IN", " ", "CURSOR">>) /\ ContainsSqlid(text)
    THEN traceRecordTypeParsingInCursor
    ELSE IF \/ HasPrefix(text, <<"PARSE", " ", "#">>)
            \/ HasPrefix(text, <<"EXEC", " ", "#">>)
            \/ HasPrefix(text, <<"FETCH", " ", "#">>)
    THEN traceRecordTypeParseExecFetch
    ELSE traceRecordTypeInvalid

\* strings.FieldsFunc and strings.Fields: the words of a text are its longest runs of
\* pieces that are not separators (run: the word begun).
RECURSIVE FieldsFunc(_, _, _)
FieldsFunc(text, seps, run) ==
    LET done == IF run = <<>> THEN <<>> ELSE <<run>> IN
    IF text = <<>> THEN done
    ELSE IF Head(text) \in seps THEN done \o FieldsFunc(Tail(text), seps, <<>>)
    ELSE FieldsFunc(Tail(text), seps, Append(run, Head(text)))

\* What parseSQLID and parsingInCursor read off a PARSING IN CURSOR record:
\* words[12][7:] without its quotes and the number of words[3][1:].
picRecord(text) ==
    LET words == FieldsFunc(text, WhiteSpace, <<>>) IN
    IF Len(words) <= 12 THEN Rec("pic", "short", 17, "def", 0)
    ELSE IF Len(words[4]) # 2 \/ Atoi(<<words[4][2]>>).err
         THEN Rec("pic", "badcur", 17, "def", 0)
    ELSE Rec("pic", "ok", Atoi(<<words[4][2]>>).n,
             IF words[13] = <<"sqlid", "=", "'abc'">> THEN "abc" ELSE "zzz", 0)

\* What parseExec reads off a PARSE, EXEC or FETCH record: words[1], words[3] and
\* words[5] through strconv.Atoi.
pefRecord(text) ==
    LET words == FieldsFunc(text, ExecSeparators, <<>>) IN
    IF Len(words) <= 5 THEN Rec("pef", "short", 17, "", 5000)
    ELSE IF Atoi(words[2]).err THEN Rec("pef", "badcur", 17, "", 5000)
    ELSE IF Atoi(words[4]).err THEN Rec("pef", "badcpu", Atoi(words[2]).n, "", 5000)
    ELSE IF Atoi(words[6]).err THEN Rec("pef", "badela", Atoi(words[2]).n, "", 5000)
    ELSE [Rec("pef", "ok", Atoi(words[2]).n, "", Atoi(words[6]).n)
             EXCEPT !.cpu = Atoi(words[4]).n]

\* The record as parseRecord reads it.
RecordOfText(text) ==
    LET type == traceRecordTypeOfText(text) IN
    IF type = traceRecordTypeParsingInCursor THEN picRecord(text)
    ELSE IF type = traceRecordTypeParseExecFetch THEN pefRecord(text)
    ELSE Rec("invalid", "ok", 0, "", 0)

\* Lines of a trace file (without their LF).
PefLine(verb, cur, c, e, more) ==
    <<verb, " ", "#", cur, ":", "c", "=", c, ",", "e", "=", e>> \o more
MoreFields == <<",", "p", "=", "0">>
PicLine ==
    <<"PARSING", " ", "IN", " ", "CURSOR", " ", "#", "17", " ", "len", "=", "52", " ",
      "dep", "=", "0", " ", "uid", "=", "0", " ", "oct", "=", "3", " ",
      "lid", "=", "0", " ", "tim", "=", "1", " ", "hv", "=", "9", " ",
      "ad", "=", "'x'", " ", "sqlid", "=", "'abc'">>
LexLines ==
    { PicLine,
      <<"PARSING", " ", "IN", " ", "CURSOR", " ", "#", "17", " ", "len", "=", "52">>,
      <<"PARSING", " ", "IN", " ", "CURSOR", " ", "sqlid", "=", "'abc'">>,
      <<" ", "PARSING", " ", "IN", " ", "CURSOR", " ", "sqlid", "=", "'abc'">>,
      <<"WAIT", " ", "#", "17", ":", " ", "nam", "=", "'x'">>,
      <<"EXEC", "#", "17", ":", "c", "=", "100", ",", "e", "=", "5000">>,
      <<"=", "=", "=">>,
      <<>>,
      <<"EXEC", " ", "#", "17">>,
      PefLine("EXEC", "17", "x", "5000", MoreFields),
      PefLine("EXEC", "17", "100", "500", MoreFields),
      PefLine("EXEC", "18", "100", "5000", <<>>) }
        \cup {PefLine(v, "17", "100", "5000", m) :
                 v \in {"PARSE", "EXEC", "FETCH"}, m \in {<<>>, MoreFields}}

\* dumper.Dump for the next line of the file, as ReadRecords returns it (the line
\* and a LF), by the one Miner of SpecLexer; the Sink takes every violation.
LxDump(line) ==
    /\ Len(lx) < MaxLexLines
    /\ IF lx = <<>> THEN TRUE ELSE lx[Len(lx)].status = "ok"
    /\ LET text == line \o <<LF>>
           pr == parseRecord(RecordOfText(text), watch, cursors)
       IN  /\ watch' = pr.watch
           /\ cursors' = pr.Cursors
           /\ emitted' = IF pr.status = "ok" /\ pr.isViolation
                         THEN Append(emitted, pr.summary) ELSE emitted
           /\ lx' = Append(lx, [line |-> line, type |-> traceRecordTypeOfText(text),
                                status |-> pr.status, isViolation |-> pr.isViolation])
    /\ UNCHANGED <<ld, awr, svCall, prCall>>
    /\ UNCHANGED <<sysVars, rdVars, psVars, casVars, rsVars, xfVars, roVars>>

(***************************************************************************)
(* parseRecord called by several Miners (SpecDeref): every Miner calls     *)
(* Dump on the one dumper, so that the calls meet on one cursor table.     *)
(* Each method of the cursor table holds its lock from entry to return.    *)
(*   pc: "idle"   between two records                                      *)
(*       "pic"    in parsingInCursor, before compareAndSet                 *)
(*       "get"    compareAndSet found a cursor, before curTracker.get      *)
(*       "delete" the cursor is of another SQL, before curTracker.delete   *)
(*       "set"    before curTracker.set                                    *)
(*       "pef"    in parseExec, before curTracker.hasValue                 *)
(*       "deref"  hasValue was true, before curTracker.get                 *)
(*       "panic"  a nil *cursor.Cursor was dereferenced                    *)
(***************************************************************************)
MaxDerefCalls == 2   \* records each Miner of SpecDeref hands to Dump

IdleParse == [pc |-> "idle", rec |-> Rec("invalid", "ok", 0, "", 0), done |-> 0]

\* The records of SpecDeref: well-formed records of cursor #17.
DerefRecs ==
    {Rec("pic", "ok", 17, q, 0) : q \in {"abc", "def"}} \cup {Rec("pef", "ok", 17, "", 5000)}

\* No call has panicked: a panic in one goroutine ends the process.
NoPanic == \A t \in Threads : prCall[t].pc # "panic"

\* CursorTrackerProtected.get: the cursor under the key, nil (NoCursor) without one.
get(ct, key) == ct[key]

\* What the calls of SpecDeref leave alone.
derefRest == <<ld, awr, svCall, lx, sysVars, rdVars, psVars, casVars, rsVars, xfVars, roVars>>

\* Dump calls parseRecord, which calls parsingInCursor or parseExec.
PrCall(t, rec) ==
    /\ NoPanic
    /\ prCall[t].pc = "idle"
    /\ prCall[t].done < MaxDerefCalls
    /\ prCall' = [prCall EXCEPT ![t] = [pc |-> rec.type, rec |-> rec, done |-> @.done + 1]]
    /\ UNCHANGED <<watch, cursors, emitted>>
    /\ UNCHANGED derefRest

\* parsingInCursor: compareAndSet opens the cursor or reports the existing one.
PrCompareAndSet(t) ==
    /\ NoPanic
    /\ prCall[t].pc = "pic"
    /\ LET pic == parsingInCursor(prCall[t].rec, watch, cursors) IN
         /\ cursors' = pic.Cursors
         /\ prCall' = [prCall EXCEPT ![t].pc = IF pic.newCursor THEN "idle" ELSE "get"]
    /\ UNCHANGED <<watch, emitted>>
    /\ UNCHANGED derefRest

\* openSQLID := curTracker.get(getCursorID).SQLID
PrGet(t) ==
    /\ NoPanic
    /\ prCall[t].pc = "get"
    /\ LET c == get(cursors, prCall[t].rec.cur) IN
       prCall' = [prCall EXCEPT ![t].pc =
                     IF c = NoCursor THEN "panic"
                     ELSE IF prCall[t].rec.sqlid = c.SQLID THEN "idle" ELSE "delete"]
    /\ UNCHANGED <<watch, cursors, emitted>>
    /\ UNCHANGED derefRest

\* curTracker.delete(getCursorID)
PrDelete(t) ==
    /\ NoPanic
    /\ prCall[t].pc = "delete"
    /\ cursors' = [cursors EXCEPT ![prCall[t].rec.cur] = NoCursor]
    /\ prCall' = [prCall EXCEPT ![t].pc = "set"]
    /\ UNCHANGED <<watch, emitted>>
    /\ UNCHANGED derefRest

\* cur, err := openCursor(...); curTracker.set(getCursorID, cur)
PrSet(t) ==
    /\ NoPanic
    /\ prCall[t].pc = "set"
    /\ LET rec == prCall[t].rec
           want == interestingSQL(rec.sqlid, watch)
       IN  cursors' = [cursors EXCEPT ![rec.cur] =
                          openCursor(rec, rec.cur, rec.sqlid, want.tx, want.thr).cur]
    /\ prCall' = [prCall EXCEPT ![t].pc = "idle"]
    /\ UNCHANGED <<watch, emitted>>
    /\ UNCHANGED derefRest

\* parseExec: if !curTracker.hasValue(int64(cursorInt)) { return false, ... }
PrHasValue(t) ==
    /\ NoPanic
    /\ prCall[t].pc = "pef"
    /\ prCall' = [prCall EXCEPT ![t].pc =
                     IF hasValue(cursors, prCall[t].rec.cur) THEN "deref" ELSE "idle"]
    /\ UNCHANGED <<watch, cursors, emitted>>
    /\ UNCHANGED derefRest

\* curTemp := curTracker.get(cursorID); threshold := float64(curTemp.ELAThreshold),
\* and the rest of parseRecord and of Dump (the Sink takes every violation).
PrDeref(t) ==
    /\ NoPanic
    /\ prCall[t].pc = "deref"
    /\ IF get(cursors, prCall[t].rec.cur) = NoCursor
       THEN /\ prCall' = [prCall EXCEPT ![t].pc = "panic"]
            /\ UNCHANGED <<watch, emitted>>
       ELSE LET pr == parseRecord(prCall[t].rec, watch, cursors) IN
            /\ prCall' = [prCall EXCEPT ![t].pc = "idle"]
            /\ watch' = pr.watch
            /\ emitted' = IF pr.isViolation THEN Append(emitted, pr.summary) ELSE emitted
    /\ UNCHANGED cursors
    /\ UNCHANGED derefRest

(***************************************************************************)
(* C1: at most one Miner goroutine works on a trace file path at any time. *)
(***************************************************************************)
MinersOf(p) == {m \in MinerIds : miner[m].pc \in Alive /\ miner[m].path = p}

\* C1: in every reachable state every path has at most one live Miner goroutine.
C1_AtMostOneMiner == \A p \in Paths : Cardinality(MinersOf(p)) <= 1

\* A Miner of a path ended with an error and a new Miner is running for that path.
C1_Witness ==
    \E m1, m2 \in MinerIds :
        /\ miner[m1].pc = "gone_err"
        /\ miner[m2].pc \in InMine
        /\ miner[m2].path = miner[m1].path

(***************************************************************************)
(* C7: the wake of checkFile and the channel it is sent on.                *)
(***************************************************************************)
\* C7: whenever the Watchdog is in the send of a wake on an open channel, the send can
\* complete whatever the Miner is doing (the wake is non-blocking).
C7_WakeNeverBlocks ==
    (proc = "up" /\ wd.pc = "send" /\ wd.ch \notin closed) => SendReady(wd.ch)

(***************************************************************************)
(* C8: the receive of Mine.                                                *)
(***************************************************************************)
\* The step of Miner m out of <-notify.
RecvStep(m) == miner[m].pc = "recv" /\ miner'[m] # miner[m]

\* C8: a Miner blocked in <-notify leaves it only by a value of the Watchdog's send, and
\* then reads again, or by the channel being closed, and then Mine returns nil; a
\* channel closed under a running Miner stays closed until that Miner has returned.
C8_RecvLoopsOrReturnsNil ==
    [][\A m \in MinerIds :
         /\ RecvStep(m) /\ m \notin closed =>
               /\ wd.pc = "send" /\ wd.ch = m /\ wd'.pc = "select"
               /\ miner'[m] = [miner[m] EXCEPT !.pc = "read"]
         /\ RecvStep(m) /\ m \in closed => miner'[m].pc = "gone_ok"
         /\ (m \in closed /\ miner[m].pc \in InMine /\ miner'[m].pc \in InMine) => m \in closed'
      ]_vars

\* One Miner has returned nil on its closed channel; another, which had handed a
\* record to Dump and saved its offset, was woken and is about to read again.
C8_Witness ==
    \E m1, m2 \in MinerIds :
        /\ miner[m1].pc = "gone_ok"
        /\ miner[m2].pc = "read" /\ miner[m2].dumped # <<>>
        /\ rosterR[miner[m2].path].offset = miner[m2].offset

Bytes(f, a, b) == IF b > Len(f) THEN <<"beyond EOF">> ELSE SubSeq(f, a + 1, b)

\* C9: whenever a Miner is between batches, the records it has handed to Dump are, in
\* order, the bytes of its file from its start offset up to its current offset.
C9_DumpedIsFilePrefix ==
    \A m \in MinerIds :
        miner[m].pc \in {"read", "save", "recv"} =>
            miner[m].dumped = Bytes(file[miner[m].path], miner[m].start, miner[m].offset)

(***************************************************************************)
(* C10: the records of successive ReadRecords calls.                       *)
(***************************************************************************)
\* The lines of a file, each with its terminating LF; bytes after the last LF are
\* not a line.
RECURSIVE LinesOf(_)
LinesOf(f) ==
    LET i == FirstLF(f) IN
    IF i = 0 THEN <<>> ELSE <<SubSeq(f, 1, i)>> \o LinesOf(Drop(f, i))

LFTerminated(f) == f = <<>> \/ f[Len(f)] = LF

Min(a, b) == IF a < b THEN a ELSE b

\* C10: on a file of LF-terminated lines the i-th call returns the next lines of the
\* file in order, each with its LF, at most recordsCount of them, and returns no
\* record exactly when no unread line remains.
C10_ReadRecordsReturnsLines ==
    LFTerminated(rdFile) =>
        \A i \in 1..Len(rdOut) :
            LET L == LinesOf(rdFile)
                first == (i - 1) * recordsCount
            IN  rdOut[i].recs = SubSeq(L, first + 1, Min(first + recordsCount, Len(L)))

(***************************************************************************)
(* C11: a trailing line that has no LF yet.                                *)
(***************************************************************************)
\* The file holds no carriage return.
NoCR(f) == \A i \in 1..Len(f) : f[i] # CR

\* The sequences of a sequence, one after the other.
RECURSIVE Flat(_)
Flat(ss) == IF ss = <<>> THEN <<>> ELSE Head(ss) \o Flat(Tail(ss))

\* The bytes returned by the calls so far, in order.
Returned11(out) == Flat([i \in 1..Len(out) |-> Flat(out[i].recs)])

\* C11: on a file without carriage returns, after any number of calls the offset is
\* within the file and on a line boundary, and the records returned are the bytes of
\* the file up to the offset (no bytes after the last LF are returned).
C11_NoPartialLine ==
    NoCR(rdFile) =>
        /\ rdOffset <= Len(rdFile)
        /\ rdOffset = 0 \/ rdFile[rdOffset] = LF
        /\ Returned11(rdOut) = SubSeq(rdFile, 1, rdOffset)

(***************************************************************************)
(* C12, C13: records the parser cannot read.                               *)
(***************************************************************************)
\* The record handed to Dump in this step.
Dumped12 == psPrefix'[Len(psPrefix')]

\* C12: when the record handed to Dump fails to parse (parseRecord returns an error),
\* the Miner goes on with the next record: Mine does not return.
C12_ParseFailureSkipsRecord ==
    [][(psPrefix' # psPrefix /\ parseRecord(Dumped12, watch, cursors).status = "err")
           => psState' = "run"
      ]_vars

\* C13: whatever records are handed to Dump, the process neither panics nor is ended
\* by log.Fatal: every record ends in a summary or an error value.
C13_NoPanicNoAbort == psState \notin {"panic", "fatal"}

(***************************************************************************)
(* C14, C15: a Miner that returns an error.                                *)
(***************************************************************************)
\* C14: the error of a Miner stays with its file: the Watchdog is never left in the
\* send of a wake to a Miner that has returned an error, where no receive will ever
\* meet it and no further event of any path is handled.
C14_MinerErrorIsLocal ==
    ~(/\ proc = "up"
      /\ wd.pc = "send" /\ wd.ch \notin closed
      /\ miner[wd.ch].pc \in {"failed", "gone_err"})

\* C15: in every step, a Miner whose Dump returns an error returns that error; a
\* Miner that returned an error next removes the trace-table entry of its path and
\* ends; and an accepted event handled for a path without an entry makes a channel
\* for it and starts a new Miner on it.
C15_DumpErrorRespawns ==
    [][/\ \A m \in MinerIds :
            /\ (miner'[m].dumpErr /\ ~miner[m].dumpErr) => miner'[m].pc = "failed"
            /\ (miner[m].pc = "failed" /\ miner'[m] # miner[m]) =>
                   /\ traces'[miner[m].path] = 0
                   /\ miner'[m].pc = "gone_err"
       /\ (wd.pc = "select" /\ wd'.pc \notin {"select", "done"} /\ traces[wd'.path] = 0) =>
               /\ wd'.pc = "open"
               /\ traces'[wd'.path] = wd'.ch /\ wd'.ch # 0 /\ wd'.ch \notin closed'
       /\ (wd.pc = "open" /\ wd'.pc # "open") =>
               /\ miner'[wd.ch].pc = "read" /\ miner'[wd.ch].path = wd.path
               /\ traces'[wd.path] = wd.ch
      ]_vars

\* The Miner of a path returned an error of Dump and removed the entry, and the next
\* accepted event of the path has started a new Miner, which is about to read.
C15_Witness ==
    \E m1, m2 \in MinerIds :
        /\ miner[m1].pc = "gone_err"
        /\ miner[m2].pc = "read" /\ miner[m2].dumped = <<>>
        /\ miner[m2].path = miner[m1].path
        /\ traces[miner[m2].path] = m2
        /\ wd.pc = "select"

(***************************************************************************)
(* C16: the interrupt.                                                     *)
(***************************************************************************)
\* C16: no value is sent on a closed channel (the process does not panic), and when
\* Run has returned every channel of the trace table has been closed.
C16_InterruptClean ==
    /\ proc # "panic"
    /\ wd.pc = "done" => \A p \in Paths : traces[p] # 0 => traces[p] \in closed

(***************************************************************************)
(* C17: the cursors of different trace files.                              *)
(***************************************************************************)
\* Entry j of the log opened the cursor that the record of entry i names, in the same
\* file, with no exit of that file's Miner in between.
OpenedInSameFile(j, i) ==
    /\ j < i
    /\ xfLog[j].file = xfLog[i].file
    /\ xfLog[j].kind = "dump" /\ xfLog[j].rec.type = "pic"
    /\ xfLog[j].rec.cur = xfLog[i].rec.cur
    /\ interestingSQL(xfLog[j].rec.sqlid, ShareWatch).ok
    /\ \A k \in (j + 1)..(i - 1) :
           ~(xfLog[k].kind = "exit" /\ xfLog[k].file = xfLog[i].file)

\* C17: a PARSE/EXEC/FETCH record is resolved to a cursor only if a PARSING IN CURSOR
\* record of the same file opened that cursor since the file's Miner started.
C17_NoCrossFileCursor ==
    \A i \in 1..Len(xfLog) :
        xfLog[i].known => \E j \in 1..Len(xfLog) : OpenedInSameFile(j, i)

(***************************************************************************)
(* C18: Roster.TraceFile after Roster.Save.                                *)
(***************************************************************************)
\* C18: once Save has put the state of a Miner's TraceFile into the Roster, opening
\* the file's name on that Roster returns that state, and once Save has written the
\* roster file, opening it on the Roster loaded from the file does; a name without a
\* record opens at offset 0 and version 1.
C18_OpenAfterSave ==
    /\ \A t \in Savers :
         /\ roSaver[t].pc \in {"mkdir", "write", "unlock"} =>
                RosterTraceFile(rosterR, roSaver[t].tf.path) = roSaver[t].tf
         /\ (roSaver[t].pc = "unlock" /\ ~roSaver[t].err) =>
                RosterTraceFile(LoadRoster(rosterDisk).R, roSaver[t].tf.path) = roSaver[t].tf
    /\ \A p \in RosterNames :
         Lookup(rosterR, p) = NoRec =>
             RosterTraceFile(rosterR, p) = [path |-> p, version |-> 1, offset |-> 0]

(***************************************************************************)
(* C19: a save of the Roster that fails.                                   *)
(***************************************************************************)
\* Miner m leaves tf.UpdateRoster() in this step and the roster file does not hold
\* the Roster: the write of Save failed.
SaveFailed(m) ==
    /\ miner[m].pc = "save" /\ miner'[m].pc # "save"
    /\ rosterDisk' # Whole(rosterR')

\* C19: a Miner whose save of the Roster fails returns the error; it does not go on
\* to wait on its wake channel.
C19_SaveErrorPropagated ==
    [][\A m \in MinerIds : SaveFailed(m) => miner'[m].pc = "failed"]_vars

(***************************************************************************)
(* C20: the roster file.                                                   *)
(***************************************************************************)
\* C20: at every point the roster file holds a whole document (the one before a save
\* or the one after it), so that a start of the process at any point loads it.
C20_RosterFileWhole == Loadable(rosterDisk) /\ roLoad # "error"

(***************************************************************************)
(* C3: resuming a file after a restart.                                    *)
(***************************************************************************)
\* The summaries one uninterrupted run sends to the Sink for the records recs.
RECURSIVE RunFrom(_, _, _, _)
RunFrom(recs, W, ct, out) ==
    IF recs = <<>> THEN out
    ELSE LET pr == parseRecord(Head(recs), W, ct) IN
         RunFrom(Tail(recs), pr.watch, pr.Cursors,
                 IF pr.isViolation THEN Append(out, pr.summary) ELSE out)

Uninterrupted(recs) == RunFrom(recs, ResumeWatch, NoCursors, <<>>)

\* C3: when the process was restarted with everything it had read saved in the roster,
\* the summaries sent to the Sink after the restart are those that one uninterrupted
\* run over the lines read so far sends after the ones sent before the restart.
C3_IdempotentResume ==
    (rsCut # NoCut /\ rsCut.clean) =>
        Drop(emitted, rsCut.emitted)
            = Drop(Uninterrupted(SubSeq(rsFile, 1, rsOffset)), rsCut.emitted)

(***************************************************************************)
(* C4: the violation count of a business-tx.                               *)
(***************************************************************************)
\* The PARSING IN CURSOR record that opened the cursor of record i of the prefix: the
\* last earlier one with that cursor number and a watched SQL id (0: none).
OwnerOf(pre, i) ==
    LET js == {j \in 1..(i - 1) :
                  /\ pre[j].type = "pic" /\ pre[j].form = "ok"
                  /\ pre[j].cur = pre[i].cur
                  /\ interestingSQL(pre[j].sqlid, watch).ok}
    IN  IF js = {} THEN 0 ELSE CHOOSE j \in js : \A k \in js : k <= j

\* The PARSE/EXEC/FETCH records of the prefix owned by a cursor of row t whose elapsed
\* time in ms is at least the threshold of row t.
ViolatingRecs(t) ==
    {i \in 1..Len(psPrefix) :
        /\ psPrefix[i].type = "pef" /\ psPrefix[i].form = "ok"
        /\ OwnerOf(psPrefix, i) # 0
        /\ interestingSQL(psPrefix[OwnerOf(psPrefix, i)].sqlid, watch).tx
               = watch[t].BusinessTxName
        /\ psPrefix[i].ela >= 1000 * watch[t].ELAThreshold}

OpenedCalls(k) == {i \in 1..Len(casLog) : casLog[i].key = k /\ casLog[i].result = "opened"}

\* The calls on key k, returned or not, whose open() has succeeded.
Openers(k) ==
    Cardinality(OpenedCalls(k))
        + Cardinality({t \in Threads : cas[t].key = k /\
                          (cas[t].pc = "set" \/ cas[t].result = "opened")})

\* C5: of the calls of compareAndSet on one cursor id that start from an empty slot, at
\* most one has its open() succeed and returns the cursor; every call that returns
\* after it returns errExistingCursor without calling open(); a call whose open() fails
\* returns the error and leaves the table as it found it.
C5_CompareAndSetAtomic ==
    /\ \A k \in CursorIds : Openers(k) <= 1
    /\ \A i \in 1..Len(casLog) :
         LET c == casLog[i] IN
         /\ c.result = "opened" =>
               /\ c.invoked /\ ~hasValue(c.before, c.key)
               /\ c.after = [c.before EXCEPT ![c.key] = NewCursor(c.key, c.sqlid, "OE", 1)]
         /\ c.result = "existing" =>
               /\ ~c.invoked /\ c.after = c.before
               /\ \E j \in 1..(i - 1) : casLog[j].key = c.key /\ casLog[j].result = "opened"
         /\ c.result = "error" =>
               /\ c.invoked /\ c.after = c.before /\ ~hasValue(c.before, c.key)
         /\ \A j \in 1..(i - 1) :
               (casLog[j].key = c.key /\ casLog[j].result = "opened") => c.result = "existing"

\* On one cursor id, a call of one goroutine failed in open(), a call of another
\* opened the cursor, and a later call found it present.
C5_Witness ==
    \E i, j, l \in 1..Len(casLog) :
        /\ casLog[i].key = casLog[j].key /\ casLog[j].key = casLog[l].key
        /\ casLog[i].result = "error"
        /\ casLog[j].result = "opened"
        /\ casLog[l].result = "existing"
        /\ casLog[i].thread # casLog[j].thread

(***************************************************************************)
(* C6: wakes while the Miner works.                                        *)
(***************************************************************************)
\* C6: the Watchdog makes progress: a wake it sends on an open channel is always
\* completed, so that it returns to its event loop.
C6_WatchdogProgress ==
    (proc = "up" /\ wd.pc = "send" /\ wd.ch \notin closed)
        ~> (wd.pc # "send" \/ wd.ch \in closed)

(***************************************************************************)
(* C21: the rows loadSQL builds from the watch-list file.                  *)
(***************************************************************************)
\* The row C21 names for a line: column 0 without leading spaces and
\* surrounding quotes as the name, column 1 as the number, the columns after
\* it as the SQL ids, and stats of zero.
Unquoted(raw) == SelectSeq(raw, LAMBDA x : x \notin {SP, QT})
Column(line, i) == IF i <= Len(line) THEN Unquoted(line[i]) ELSE <<>>
NumberOf(text) == IF text = <<"10">> THEN 10 ELSE IF text = <<"1">> THEN 1 ELSE 0
C21_Row(line) ==
    [BusinessTxName |-> Column(line, 1),
     ELAThreshold |-> NumberOf(Column(line, 2)),
     SQLID |-> [i \in 1..(Len(line) - 2) |-> Column(line, i + 2)],
     LastELA |-> 0, WorstELA |-> 0, NumViolations |-> 0]
C21_Rows(lines) == [i \in 1..Len(lines) |-> C21_Row(lines[i])]
IsComment(line) == line # <<>> /\ line[1] # <<>> /\ Head(line[1]) = HASH

WordCount(v) ==
    Len(SelectSeq(v, LAMBDA x : x # FF)) + 4 * Len(SelectSeq(v, LAMBDA x : x = HdrText))
BeginsWithFormFeed(v) == v # <<>> /\ v[1] = FF
\* The header of the section, as it stands in a report and in sqlOrderedByELA: the
\* page break followed by the words.
BeginsWithHeader(v) == BeginsWithFormFeed(v) /\ Len(v) >= 2 /\ v[2] = HdrText
\* Line i lies after a header line, with no line beginning with a form feed from
\* there up to and including line i.
InSection(f, i) ==
    \E h \in 1..(i - 1) :
        BeginsWithHeader(f[h]) /\ \A j \in (h + 1)..i : ~BeginsWithFormFeed(f[j])
\* (The third word of a line that begins with the words of the header is "by".)
C22_Wanted(f, i) ==
    /\ InSection(f, i)
    /\ WordCount(f[i]) = 7
    /\ f[i][1] # HdrText
    /\ f[i][3] \in {"1.5", "26.3"}
RECURSIVE C22_Rows(_, _)
C22_Rows(f, n) ==
    IF n = 0 THEN <<>>
    ELSE IF C22_Wanted(f, n)
         THEN Append(C22_Rows(f, n - 1),
                     [sqlid |-> f[n][7], elaPerExecString |-> f[n][3],
                      ela |-> f[n][1], execs |-> f[n][2]])
    ELSE C22_Rows(f, n - 1)

MinerRunning(p) == \E m \in MinerIds : miner[m].pc \in Alive /\ miner[m].path = p
MinerBeingSpawned(p) == wd.pc = "open" /\ wd.path = p

\* C24: while the process runs, a path has an entry in the trace table if and only
\* if a Miner for it is running or is being spawned, also after a Miner has returned.
C24_TraceTableInvariant ==
    proc = "up" =>
        \A p \in Paths : traces[p] # 0 <=> (MinerRunning(p) \/ MinerBeingSpawned(p))

(***************************************************************************)
(* C25 to C27, C29, C30: what one record does to the cursor table, the     *)
(* stats and the Sink (SpecParser).                                        *)
(***************************************************************************)
\* A record is handed to Dump in this step.
DumpStep == psPrefix' # psPrefix

\* The rows of the watch list that list the SQL id, and the first of them.
RowsWith(W, sqlid) == {i \in 1..Len(W) : sqlid \in W[i].SQLID}
FirstRowWith(W, sqlid) == CHOOSE i \in RowsWith(W, sqlid) : \A j \in RowsWith(W, sqlid) : i <= j

\* The result of Dump is not a violation: no stats change, nothing goes to the Sink,
\* and the Miner goes on.
NoViolation == watch' = watch /\ emitted' = emitted /\ psState' = "run"

\* C25: a well-formed PARSING IN CURSOR record for cursor id c that names a watched
\* SQL id s leaves c mapped to a cursor with s and the business-tx and threshold of
\* the first row of the watch list that lists s, whatever c was mapped to before;
\* the other entries of the cursor table stay as they were and the result is not a
\* violation.
C25_OpenForWatchedSQL ==
    [][(/\ DumpStep
        /\ Dumped12.type = "pic" /\ Dumped12.form = "ok"
        /\ RowsWith(watch, Dumped12.sqlid) # {})
           => LET c == Dumped12.cur
                  row == watch[FirstRowWith(watch, Dumped12.sqlid)]
              IN  /\ cursors'[c].CursorID = c
                  /\ cursors'[c].SQLID = Dumped12.sqlid
                  /\ cursors'[c].BusinessTxName = row.BusinessTxName
                  /\ cursors'[c].ELAThreshold = row.ELAThreshold
                  /\ \A k \in CursorIds \ {c} : cursors'[k] = cursors[k]
                  /\ NoViolation
      ]_vars

\* Cursor 17, opened for abc, has been opened again for def, which two rows of the
\* watch list name: the cursor has the business-tx of the first of them.
C25_Witness ==
    /\ Len(psPrefix) >= 2
    /\ psPrefix[1] = Rec("pic", "ok", 17, "abc", 0)
    /\ psPrefix[2] = Rec("pic", "ok", 17, "def", 0)
    /\ Cardinality(RowsWith(watch, "def")) = 2
    /\ cursors[17].SQLID = "def" /\ cursors[17].BusinessTxName = watch[1].BusinessTxName

\* C26: after a well-formed PARSING IN CURSOR record for cursor id c that names a
\* SQL id other than that of the cursor open for c, watched or not, the table no
\* longer maps c to the old SQL id.
C26_ReuseDestroysCursor ==
    [][(/\ DumpStep
        /\ Dumped12.type = "pic" /\ Dumped12.form = "ok"
        /\ hasValue(cursors, Dumped12.cur)
        /\ cursors[Dumped12.cur].SQLID # Dumped12.sqlid)
           => cursors'[Dumped12.cur].SQLID # cursors[Dumped12.cur].SQLID
      ]_vars

\* The PARSE/EXEC/FETCH record handed to Dump is one of a known cursor with an
\* elapsed time, in thousandths of a millisecond, below (at or above) the threshold.
KnownPef == Dumped12.type = "pef" /\ Dumped12.form = "ok" /\ hasValue(cursors, Dumped12.cur)
Violating == KnownPef /\ Dumped12.ela >= Milli * cursors[Dumped12.cur].ELAThreshold
Below == KnownPef /\ Dumped12.ela < Milli * cursors[Dumped12.cur].ELAThreshold

Max(a, b) == IF a >= b THEN a ELSE b

\* C27: on a violation the row of the cursor's business-tx gets last = ela,
\* worst = max(worst, ela) and one more violation, the rows of every other
\* business-tx stay as they were, and the summary returned carries the cursor's
\* business-tx, threshold and SQL id and the values of the row after the update.
C27_ViolationUpdatesStats ==
    [][(DumpStep /\ Violating)
           => LET cur == cursors[Dumped12.cur]
                  pr == parseRecord(Dumped12, watch, cursors)
              IN  /\ pr.status = "ok" /\ pr.isViolation
                  /\ \A t \in 1..Len(watch) :
                        IF watch[t].BusinessTxName = cur.BusinessTxName
                        THEN /\ watch'[t].LastELA = Dumped12.ela
                             /\ watch'[t].WorstELA = Max(watch[t].WorstELA, Dumped12.ela)
                             /\ watch'[t].NumViolations = watch[t].NumViolations + 1
                             /\ pr.summary =
                                   [businessTxName |-> cur.BusinessTxName,
                                    threshold |-> Milli * cur.ELAThreshold,
                                    sqlID |-> cur.SQLID,
                                    worstELA |-> watch'[t].WorstELA,
                                    lastELA |-> watch'[t].LastELA,
                                    numViolations |-> watch'[t].NumViolations]
                        ELSE watch'[t] = watch[t]
      ]_vars

\* A business-tx has had two violations, the last with a shorter elapsed time than
\* the worst.
C27_Witness ==
    \E t \in 1..Len(watch) :
        watch[t].NumViolations = 2 /\ watch[t].LastELA < watch[t].WorstELA

\* C29: a PARSE/EXEC/FETCH record of six words or more whose cursor number is a
\* number that is not in the cursor table is a no-op, whatever stands in its c= and
\* e= fields: no error, no violation, and the cursor table, the stats and the Sink
\* stay as they were.
C29_UnknownCursorNoOp ==
    [][(/\ DumpStep
        /\ Dumped12.type = "pef" /\ Dumped12.form \in {"ok", "badcpu", "badela"}
        /\ ~hasValue(cursors, Dumped12.cur))
           => /\ parseRecord(Dumped12, watch, cursors).status = "ok"
              /\ ~parseRecord(Dumped12, watch, cursors).isViolation
              /\ cursors' = cursors
              /\ NoViolation
      ]_vars

\* The first record of the file is an EXEC whose e= is not a number, for a cursor
\* that was never opened, and the Miner goes on.
C29_Witness ==
    /\ Len(psPrefix) = 1
    /\ psPrefix[1].type = "pef" /\ psPrefix[1].form = "badela"
    /\ psState = "run"

\* C30: a PARSE/EXEC/FETCH record for a known cursor with an elapsed time below the
\* cursor's threshold returns an empty summary that is not a violation, and leaves
\* the stats of every business-tx and the cursor table as they were, with nothing
\* sent to the Sink.
C30_BelowThresholdNoOp ==
    [][(DumpStep /\ Below)
           => /\ parseRecord(Dumped12, watch, cursors).status = "ok"
              /\ ~parseRecord(Dumped12, watch, cursors).isViolation
              /\ parseRecord(Dumped12, watch, cursors).summary = NoSummary
              /\ cursors' = cursors
              /\ NoViolation
      ]_vars

\* After a violation of a business-tx, a record below the threshold of the same
\* cursor has been handed to Dump: the stats are those of the violation.
C30_Witness ==
    /\ Len(psPrefix) = 3
    /\ psPrefix[1] = Rec("pic", "ok", 17, "abc", 0)
    /\ psPrefix[2] = Rec("pef", "ok", 17, "", 5000)
    /\ psPrefix[3] = Rec("pef", "ok", 17, "", 500)
    /\ watch[1].NumViolations = 1 /\ watch[1].LastELA = 5000
    /\ psState = "run"

(***************************************************************************)
(* C28: the number of violations under concurrent Miners.                  *)
(***************************************************************************)
\* C28: in every step of every execution, also with several Miners in
\* setViolations for the same business-tx, NumViolations of no row decreases.
C28_NumViolationsMonotonic ==
    [][\A r \in 1..Len(watch) : watch'[r].NumViolations >= watch[r].NumViolations]_vars

(***************************************************************************)
(* C35: the Roster map and the Roster's lock.                              *)
(***************************************************************************)
\* C35: no step is a read of r.R by Roster.TraceFile (the Watchdog opening a trace
\* for a new Miner) that meets a write of r.R by the Save of a running Miner.
C35_RosterMapUnderLock == [][~RosterRace]_vars

(***************************************************************************)
(* C40: the version of a trace file that has shrunk.                       *)
(***************************************************************************)
\* Miner m calls ReadRecords in this step with an offset beyond the end of its file.
ReadsShrunk(m) ==
    /\ miner[m].pc = "read" /\ miner'[m].pc \in {"dump", "save"}
    /\ miner[m].offset > Len(file[miner[m].path])

\* Miner m saves its Roster record in this step.
Saves(m) == miner[m].pc = "save" /\ miner'[m].pc = "recv"

\* C40: a ReadRecords call that finds the file shorter than the stored offset raises
\* the version, and a Roster record saved holds an offset within the file.
C40_VersionIncrementsOnShrink ==
    [][\A m \in MinerIds :
         /\ ReadsShrunk(m) => miner'[m].version > miner[m].version
         /\ Saves(m) =>
               rosterR'[TraceKey(miner[m])].offset <= Len(file[miner[m].path])
      ]_vars

(***************************************************************************)
(* C32: the records before a saved offset.                                 *)
(***************************************************************************)
\* A line of the file as ReadRecords hands it on: without a carriage return before
\* its LF.
AsRecord(line) == dropCR(SubSeq(line, 1, Len(line) - 1)) \o <<LF>>

\* s is a subsequence of t.
RECURSIVE IsSubseq(_, _)
IsSubseq(s, t) ==
    IF s = <<>> THEN TRUE
    ELSE IF t = <<>> THEN FALSE
    ELSE IF Head(s) = Head(t) THEN IsSubseq(Tail(s), Tail(t))
    ELSE IsSubseq(s, Tail(t))

\* The complete lines of file f between the offsets a and b.
LinesBetween(f, a, b) ==
    LET to == Min(b, Len(f)) IN
    IF a >= to THEN <<>> ELSE LinesOf(SubSeq(f, a + 1, to))

\* C32: when a Miner has saved its offset and waits, every complete record of the
\* file between the offset it started from and the offset it saved is among the
\* records it handed to Dump, in order, and Dump returned no error.
C32_NoRecordLost ==
    \A m \in MinerIds :
        miner[m].pc = "recv" =>
            LET lines == LinesBetween(file[miner[m].path], miner[m].start,
                                      miner[m].offset)
            IN  /\ ~miner[m].dumpErr
                /\ IsSubseq([i \in 1..Len(lines) |-> AsRecord(lines[i])],
                            LinesOf(miner[m].dumped))

(***************************************************************************)
(* C33: the record a respawned Miner starts at.                            *)
(***************************************************************************)
\* C33: when Dump returns an error for a record, the offset the Roster holds for the
\* file, where the Miner spawned by a later event starts, is the offset of that
\* record: the records before it are not handed to the parser again.
C33_RespawnAtFailedRecord ==
    [][\A m \in MinerIds :
         (miner[m].pc = "dump" /\ miner'[m].pc = "failed")
            => RosterTraceFile(rosterR, miner[m].path).offset
                  = miner[m].offset - Len(Head(miner[m].batch))
      ]_vars

(***************************************************************************)
(* C36: worst and last elapsed time of a business-tx.                      *)
(***************************************************************************)
\* The largest number of a finite set of naturals, 0 for the empty set.
MaxOf(S) == IF S = {} THEN 0 ELSE CHOOSE x \in S : \A y \in S : y <= x

\* C36: after any prefix handed to Dump by a single Miner, WorstELA of every
\* business-tx is at least its LastELA and is the largest elapsed time of the
\* violations of the prefix counted for it.
C36_WorstIsMax ==
    \A t \in 1..Len(watch) :
        /\ watch[t].WorstELA >= watch[t].LastELA
        /\ watch[t].WorstELA = MaxOf({psPrefix[i].ela : i \in ViolatingRecs(t)})

\* A business-tx has had two violations, the later with the longer elapsed time.
C36_Witness ==
    \E t \in 1..Len(watch) :
        /\ watch[t].NumViolations >= 2
        /\ watch[t].LastELA = watch[t].WorstELA
        /\ \E i \in ViolatingRecs(t) : psPrefix[i].ela < watch[t].WorstELA

(***************************************************************************)
(* C39: the events the Watchdog acts on.                                   *)
(***************************************************************************)
\* The event passes the mode filter.
PassesMode(kind) ==
    IF mode = "write" THEN kind \in {"create", "modify"}
    ELSE mode = "create" /\ kind = "create"

\* The basename ends in .trc and starts with {db_name}_ora_.
PassesName(p) ==
    LET base == Spelling(p[Len(p)]) IN
    /\ base[Len(base)] = ".trc"
    /\ SubSeq(base, 1, 2) = <<dbName, "_ora_">>

\* C39: the Watchdog's decision on an event launches a Miner or starts waking one, for
\* the path of the event, if the event passes the mode filter and the name filter,
\* and otherwise leaves the trace table and the Miners as they were and goes back to
\* the event loop.
C39_EventFilter ==
    [][(wd.pc = "event" /\ wd' # wd) =>
         IF PassesMode(wd.kind) /\ PassesName(wd.path)
         THEN /\ wd'.pc \in {"open", "send"} /\ wd'.path = wd.path
              /\ wd'.pc = "open" => traces'[wd.path] = wd'.ch /\ traces[wd.path] = 0
              /\ wd'.pc = "send" => traces[wd.path] = wd'.ch /\ traces' = traces
         ELSE traces' = traces /\ miner' = miner /\ wd' = WdIdle
      ]_vars

\* In mode "create" a Miner is being woken by a create event for its file, and no
\* other file of the directory has an entry in the trace table.
C39_Witness ==
    /\ mode = "create"
    /\ wd.pc = "send" /\ wd.path = P1
    /\ \A p \in OtherPaths : traces[p] = 0

(***************************************************************************)
(* C37: the classes of the lexer.                                          *)
(***************************************************************************)
\* The line handed to Dump in this step of SpecLexer, and what Dump made of it.
LexStep == lx' # lx
Lexed == lx'[Len(lx')]

\* The line begins with the given words, a single space between them.
BeginsWith(line, words) ==
    /\ Len(line) >= 2 * Len(words) - 1
    /\ \A i \in 1..(2 * Len(words) - 1) :
          line[i] = IF i % 2 = 1 THEN words[(i + 1) \div 2] ELSE " "

\* The line begins with the verb, a space and a number sign.
BeginsWithVerb(line, verb) == Len(line) >= 3 /\ SubSeq(line, 1, 3) = <<verb, " ", "#">>

IsParsingInCursor(line) ==
    /\ BeginsWith(line, <<"PARSING", "IN", "CURSOR">>)
    /\ "sqlid" \in {line[i] : i \in 1..Len(line)}

IsParseExecFetch(line) == \E verb \in {"PARSE", "EXEC", "FETCH"} : BeginsWithVerb(line, verb)

\* C37: every line handed to Dump gets exactly one class: ParsingInCursor iff it
\* begins with PARSING IN CURSOR and contains sqlid, ParseExecFetch iff it begins
\* with PARSE #, EXEC # or FETCH #, Invalid otherwise; an Invalid line is no error and
\* no violation and leaves the cursor table, the stats and the Sink as they were.
C37_LexerClasses ==
    [][LexStep =>
         /\ Lexed.type \in {traceRecordTypeInvalid, traceRecordTypeParsingInCursor,
                            traceRecordTypeParseExecFetch}
         /\ Lexed.type = traceRecordTypeParsingInCursor <=> IsParsingInCursor(Lexed.line)
         /\ Lexed.type = traceRecordTypeParseExecFetch <=> IsParseExecFetch(Lexed.line)
         /\ Lexed.type = traceRecordTypeInvalid =>
               /\ Lexed.status = "ok" /\ ~Lexed.isViolation
               /\ UNCHANGED <<watch, cursors, emitted>>
      ]_vars

\* After a cursor was opened and a violation counted, a line that begins with
\* PARSING IN CURSOR but holds no sqlid was classed Invalid and changed nothing.
C37_Witness ==
    /\ Len(lx) = 3
    /\ lx[1].type = traceRecordTypeParsingInCursor /\ hasValue(cursors, 17)
    /\ lx[2].type = traceRecordTypeParseExecFetch /\ lx[2].isViolation
    /\ lx[3].type = traceRecordTypeInvalid /\ lx[3].status = "ok"
    /\ BeginsWith(lx[3].line, <<"PARSING", "IN", "CURSOR">>)

(***************************************************************************)
(* C38: the fields of a PARSE, EXEC or FETCH line.                         *)
(***************************************************************************)
\* The tokens of a line: what stands between the separators # : , = and space.
Tokens(line) == SelectSeq(line, LAMBDA piece : piece \notin {"#", ":", ",", "=", " "})

Decimal(token) == token \in {"0", "1", "3", "9", "17", "18", "52", "100", "500", "5000"}

ValueOf(token) ==
    CASE token = "17" -> 17 [] token = "18" -> 18 [] token = "100" -> 100
      [] token = "500" -> 500 [] token = "5000" -> 5000 [] OTHER -> 0

\* C38: for a PARSE/EXEC/FETCH line of six tokens or more whose tokens 1, 3 and 5 are
\* decimal numbers and whose cursor is in the cursor table, the field extraction
\* succeeds with cursor = token 1, CPU = token 3 and elapsed = token 5, also when
\* token 5 is the last token of the line.
C38_ExecFields ==
    [][(/\ LexStep
        /\ IsParseExecFetch(Lexed.line)
        /\ Len(Tokens(Lexed.line)) >= 6
        /\ \A i \in {2, 4, 6} : Decimal(Tokens(Lexed.line)[i])
        /\ hasValue(cursors, ValueOf(Tokens(Lexed.line)[2])))
           => LET tokens == Tokens(Lexed.line)
                  pe == parseExec(RecordOfText(Lexed.line \o <<LF>>), cursors)
              IN  /\ Lexed.status = "ok"
                  /\ pe.status = "ok" /\ pe.isKnown
                  /\ pe.cursorID = ValueOf(tokens[2])
                  /\ pe.cpu = ValueOf(tokens[4])
                  /\ pe.ela = ValueOf(tokens[6])
      ]_vars

(***************************************************************************)
(* C31: reading a cursor after the table reported it present.              *)
(***************************************************************************)
\* C31: no call of parseRecord reads a missing cursor: after compareAndSet reported
\* an existing cursor, or hasValue was true, the get that follows returns a cursor,
\* whatever the other Miners do to the cursor table in between.
C31_NoMissingCursorRead == \A t \in Threads : prCall[t].pc # "panic"

(***************************************************************************)
(* C34: appended records reach the parser.                                 *)
(***************************************************************************)
\* A complete (LF-terminated) record of the Miner's file lies unread at its offset.
UnreadRecord(m) == FirstLF(Drop(file[miner[m].path], miner[m].offset)) > 0

\* The process is up and no interrupt has been received.
Running == proc = "up" /\ sig.pc = "idle" /\ ~cntrlc /\ wd.pc # "done"

\* C34: in either mode, a Miner that waits in <-notify while a complete record lies
\* unread in its file eventually leaves the wait (and reads on), unless the process
\* is interrupted or ends.
C34_BlockedMinerWakes ==
    \A m \in MinerIds :
        (Running /\ miner[m].pc = "recv" /\ UnreadRecord(m))
            ~> (miner[m].pc # "recv" \/ ~Running)


RdIdle == rdFile = <<>> /\ rdOffset = 0 /\ rdOut = <<>>

\* output(): an empty cursor table; nothing sent to the Sink.
DumpIdle == cursors = NoCursors /\ emitted = <<>>

PsIdle == psPrefix = <<>> /\ psState = "run"

CasIdle == ctLock = NoThread /\ cas = <<>> /\ casLog = <<>>

RsIdle == rsFile = <<>> /\ rsOffset = 0 /\ rsRoster = -1 /\ rsCut = NoCut

XfIdle == xfLog = <<>>

RoIdle == roLock = NoThread /\ roSaver = <<>> /\ roLoad = "none"

LxIdle == lx = <<>> /\ prCall = <<>>
InIdle == ld = <<>> /\ awr = <<>> /\ svCall = <<>> /\ LxIdle

\* The default watch list of the specifications that do not parse.
NoWatch == watch = <<>>

SysInit ==
    /\ mode \in Modes
    /\ proc = "up"
    /\ file = [p \in Paths |-> <<>>]
    /\ traces = [p \in Paths |-> 0]
    /\ closed = {}
    /\ miner = [m \in MinerIds |-> NoMiner]
    /\ wd = WdIdle
    /\ sig = [pc |-> "idle", first |-> {}, seen |-> {}]
    /\ cntrlc = FALSE
    /\ rosterR = [p \in Paths |-> NoRec]
    /\ rosterDisk = Whole([p \in Paths |-> NoRec])

Init ==
    /\ SysInit
    /\ RdIdle /\ NoWatch /\ DumpIdle /\ PsIdle /\ CasIdle /\ RsIdle /\ XfIdle /\ RoIdle /\ InIdle

\* The steps of the program: the Miners, the Watchdog and the interrupt goroutine,
\* for events on the paths PS and roster writes with outcomes in WS.
SysNext(PS, WS) ==
    \/ \E m \in MinerIds : MinerRead(m)
    \/ \E m \in MinerIds : MinerDump(m)
    \/ \E m \in MinerIds, w \in WS : MinerSave(m, w)
    \/ \E m \in MinerIds : MinerRecvClosed(m)
    \/ \E m \in MinerIds : MinerDelete(m)
    \/ \E p \in PS, k \in Kinds : WdCheckFile(p, k)
    \/ \E p \in PS, k \in Kinds : WdIgnore(p, k)
    \/ WdOpen
    \/ WakeDeliver
    \/ WdSendClosed
    \/ WdReturn
    \/ SigInterrupt
    \/ \E c \in MinerIds : SigClose(c)
    \/ SigNotify
    \/ TracesRace(PS)

\* Spec: every path is watched; the files grow by whole (empty) lines and the
\* roster file is written without error.
Next ==
    \/ SysNext(Paths, {TRUE})
    \/ RosterRace
    \/ \E p \in Paths : FsAppend(p, LF, MaxLines)

Spec == Init /\ [][Next]_vars

\* SpecMine: one file growing byte by byte, so that a read can meet an unfinished
\* line; the write of the roster file may fail.
\* With one path the Watchdog opens a file only when no Miner of it lives, so
\* no Save meets the read of r.R.
OnePath == {P1}

NextMine ==
    \/ SysNext(OnePath, BOOLEAN)
    \/ \E b \in FileBytes : FsAppend(P1, b, MaxFileLen)

SpecMine == Init /\ [][NextMine]_vars

\* SpecLive: SpecMine where every goroutine that can take a step eventually takes
\* one (the Go scheduler runs every runnable goroutine).
MinerNext(m) ==
    \/ MinerRead(m)
    \/ MinerDump(m)
    \/ \E w \in BOOLEAN : MinerSave(m, w)
    \/ MinerRecvClosed(m)
    \/ MinerDelete(m)

WdNext == WdOpen \/ WakeDeliver \/ WdSendClosed \/ WdReturn

SigNext == (\E c \in MinerIds : SigClose(c)) \/ SigNotify

Fairness ==
    /\ \A m \in MinerIds : WF_vars(MinerNext(m))
    /\ WF_vars(WdNext)
    /\ WF_vars(SigNext)

SpecLive == Init /\ [][NextMine]_vars /\ Fairness

\* SpecEvents: SpecLive where the file system goes on reporting the appends to the
\* trace file: a modify event for it is handled whenever the Watchdog stays ready
\* to act on one.
SpecEvents == SpecLive /\ WF_vars(WdCheckFile(P1, "modify"))

\* SpecTrunc: SpecMine with a file that may also be overwritten.
NextTrunc ==
    \/ NextMine
    \/ FsTruncate(P1)

SpecTrunc == Init /\ [][NextTrunc]_vars

\* SpecReader: a file that does not change, opened at offset 0 (OpenTraceFile) and
\* read by successive calls of ReadRecords.
\* The Watchdog at rest, for the specifications of single components.
SysIdle == SysInit /\ mode = "write"

InitReader ==
    /\ SysIdle
    /\ rdFile \in SeqsUpTo(MaxReadLen)
    /\ rdOffset = 0
    /\ rdOut = <<>>
    /\ NoWatch /\ DumpIdle /\ PsIdle /\ CasIdle /\ RsIdle /\ XfIdle /\ RoIdle /\ InIdle

SpecReader == InitReader /\ [][RdCall]_vars

\* SpecParser: one Miner hands records to Dump, starting with the watch list of
\* loadSQL and the empty cursor table of output().
InitParser ==
    /\ SysIdle /\ RdIdle /\ CasIdle /\ RsIdle /\ XfIdle /\ RoIdle /\ InIdle
    /\ watch \in WatchLists
    /\ DumpIdle /\ PsIdle

NextParser == \E rec \in Records, sinkOk \in BOOLEAN : PsDump(rec, sinkOk)

SpecParser == InitParser /\ [][NextParser]_vars

\* SpecCursor: goroutines call compareAndSet on an empty cursor table.
InitCursor ==
    /\ SysIdle /\ RdIdle /\ NoWatch /\ DumpIdle /\ PsIdle /\ RsIdle /\ XfIdle /\ RoIdle /\ InIdle
    /\ ctLock = NoThread
    /\ cas = [t \in Threads |-> IdleCall]
    /\ casLog = <<>>

NextCursor ==
    \E t \in Threads :
        \/ \E k \in CursorIds, q \in {"abc", "def"} : CasCall(t, k, q)
        \/ CasLock(t)
        \/ CasCheck(t)
        \/ \E ok \in BOOLEAN : CasOpen(t, ok)
        \/ CasSet(t)
        \/ CasReturn(t)

SpecCursor == InitCursor /\ [][NextCursor]_vars

\* SpecShare: the Miners of two files hand records to the dumper of output().
InitShare ==
    /\ SysIdle /\ RdIdle /\ PsIdle /\ CasIdle /\ RsIdle /\ RoIdle /\ InIdle
    /\ watch = ShareWatch
    /\ DumpIdle /\ XfIdle

NextShare ==
    \E f \in Paths :
        \/ \E rec \in ShareRecs : XfDump(f, rec)
        \/ XfExit(f)

SpecShare == InitShare /\ [][NextShare]_vars

\* SpecRoster: the first start of the process, with no roster file.
InitRoster ==
    /\ SysIdle /\ RdIdle /\ NoWatch /\ DumpIdle /\ PsIdle /\ CasIdle /\ RsIdle /\ XfIdle /\ InIdle
    /\ roLock = NoThread
    /\ roSaver = [t \in Savers |-> NoSaver]
    /\ roLoad = "ok"

NextRoster ==
    \/ \E t \in Savers :
          \/ \E p \in RosterNames : RoOpen(t, p)
          \/ RoRead(t)
          \/ RoSaveLock(t)
          \/ RoSaveMap(t)
          \/ \E ok \in BOOLEAN : RoSaveTrunc(t, ok)
          \/ \E got \in {"all", "part", "none"} : RoSaveWrite(t, got)
          \/ RoSaveUnlock(t)
          \/ RoExit(t)
    \/ RoRestart

SpecRoster == InitRoster /\ [][NextRoster]_vars

\* SpecResume: the first start of the process on an empty trace file, with no roster.
InitResume ==
    /\ SysIdle /\ RdIdle /\ PsIdle /\ CasIdle /\ XfIdle /\ RoIdle /\ InIdle
    /\ watch = ResumeWatch
    /\ DumpIdle /\ RsIdle

NextResume ==
    \/ \E rec \in ResumeRecs : RsAppend(rec)
    \/ RsDump
    \/ RsSave
    \/ RsRestart

SpecResume == InitResume /\ [][NextResume]_vars

InitLoad ==
    /\ SysIdle /\ RdIdle /\ NoWatch /\ DumpIdle /\ PsIdle /\ CasIdle /\ RsIdle /\ XfIdle
    /\ RoIdle
    /\ ld \in {[file |-> f, pos |-> 0, s |-> <<>>, status |-> "reading"] :
                  f \in LdFiles(MaxWatchLines)}
    /\ awr = <<>> /\ svCall = <<>> /\ LxIdle

SpecLoad == InitLoad /\ [][LdRead]_vars

InitAwr ==
    /\ SysIdle /\ RdIdle /\ NoWatch /\ DumpIdle /\ PsIdle /\ CasIdle /\ RsIdle /\ XfIdle
    /\ RoIdle
    /\ awr \in {[file |-> f, pos |-> 0, analyzeLineByLine |-> FALSE, expSQL |-> <<>>,
                 done |-> FALSE] : f \in AwrFiles(MaxAwrLines)}
    /\ ld = <<>> /\ svCall = <<>> /\ LxIdle

SpecAwr == InitAwr /\ [][AwrRead]_vars

\* SpecStats: the Miners of several files call setViolations on the one watch list.
InitStats ==
    /\ SysIdle /\ RdIdle /\ DumpIdle /\ PsIdle /\ CasIdle /\ RsIdle /\ XfIdle /\ RoIdle
    /\ watch \in WatchLists
    /\ svCall = [t \in Threads |-> IdleStat]
    /\ ld = <<>> /\ awr = <<>> /\ LxIdle

NextStats ==
    \E t \in Threads :
        \/ \E r \in 1..Len(watch), ela \in Elas : SvCall(t, r, ela)
        \/ SvRange(t)
        \/ SvLast(t)
        \/ SvWorst(t)
        \/ SvLoad(t)
        \/ SvStore(t)
        \/ SvReturn(t)

SpecStats == InitStats /\ [][NextStats]_vars

\* SpecFilter: one trace file and other files of the directory; the Watchdog takes
\* the event and decides on it in two steps.
EventPaths == OnePath \cup OtherPaths

InitFilter ==
    /\ mode \in Modes
    /\ proc = "up"
    /\ file = [p \in Paths \cup OtherPaths |-> <<>>]
    /\ traces = [p \in Paths \cup OtherPaths |-> 0]
    /\ closed = {}
    /\ miner = [m \in MinerIds |-> NoMiner]
    /\ wd = WdIdle
    /\ sig = [pc |-> "idle", first |-> {}, seen |-> {}]
    /\ cntrlc = FALSE
    /\ rosterR = [p \in Paths \cup OtherPaths |-> NoRec]
    /\ rosterDisk = Whole([p \in Paths \cup OtherPaths |-> NoRec])
    /\ RdIdle /\ NoWatch /\ DumpIdle /\ PsIdle /\ CasIdle /\ RsIdle /\ XfIdle /\ RoIdle /\ InIdle

NextFilter ==
    \/ \E m \in MinerIds : MinerRead(m)
    \/ \E m \in MinerIds : MinerDump(m)
    \/ \E m \in MinerIds : MinerSave(m, TRUE)
    \/ \E m \in MinerIds : MinerRecvClosed(m)
    \/ \E m \in MinerIds : MinerDelete(m)
    \/ \E p \in EventPaths, k \in Kinds : WdEvent(p, k)
    \/ WdDispatch
    \/ WdOpen
    \/ WakeDeliver
    \/ WdSendClosed
    \/ WdReturn
    \/ SigInterrupt
    \/ \E c \in MinerIds : SigClose(c)
    \/ SigNotify
    \/ TracesRace(OnePath)
    \/ FsAppend(P1, LF, MaxLines)

SpecFilter == InitFilter /\ [][NextFilter]_vars

\* SpecLexer: one Miner hands the lines of a trace file, as text, to Dump.
InitLexer ==
    /\ SysIdle /\ RdIdle /\ DumpIdle /\ PsIdle /\ CasIdle /\ RsIdle /\ XfIdle /\ RoIdle
    /\ watch = <<MonitoredSQL("OE", 1, {"abc"})>>
    /\ InIdle

SpecLexer == InitLexer /\ [][\E line \in LexLines : LxDump(line)]_vars

\* SpecDeref: the Miners of several files hand records of cursor #17 to Dump.
InitDeref ==
    /\ SysIdle /\ RdIdle /\ DumpIdle /\ PsIdle /\ CasIdle /\ RsIdle /\ XfIdle /\ RoIdle
    /\ watch = <<MonitoredSQL("OE", 1, {"abc"}), MonitoredSQL("GL", 5, {"def"})>>
    /\ ld = <<>> /\ awr = <<>> /\ svCall = <<>> /\ lx = <<>>
    /\ prCall = [t \in Threads |-> IdleParse]

NextDeref ==
    \E t \in Threads :
        \/ \E rec \in DerefRecs : PrCall(t, rec)
        \/ PrCompareAndSet(t)
        \/ PrGet(t)
        \/ PrDelete(t)
        \/ PrSet(t)
        \/ PrHasValue(t)
        \/ PrDeref(t)

SpecDeref == InitDeref /\ [][NextDeref]_vars

====
